---- MODULE Spec2Model ----
(***************************************************************************)
(* Personal agent with long-term memory (personal_agent.py): the memory    *)
(* store (MemorySystem), the fast-path name extraction, the two generative *)
(* extraction steps with their defensive parsing, the profile merge, the   *)
(* context rendering and the per-turn orchestration (PersonalAgent).       *)
(*                                                                         *)
(* Text is modelled character by character: a Python str is a sequence     *)
(* whose elements are single characters.  A Cyrillic letter is written as  *)
(* one element named by its transliteration ("ya" is the letter YA, "Ya"   *)
(* its capital), a Latin letter as "lat_x", the em dash as "--".           *)
(***************************************************************************)
EXTENDS Integers, Sequences, FiniteSets, TLC

(***************************************************************************)
(* Characters and the str methods the program uses                         *)
(***************************************************************************)
CyrLower ==
  << "a", "b", "v", "g", "d", "e", "yo", "zh", "z", "i", "j", "k", "l", "m", "n", "o", "p",
     "r", "s", "t", "u", "f", "h", "c", "ch", "sh", "sch", "hard", "y", "soft", "eh", "yu", "ya" >>

CyrUpper ==
  << "A", "B", "V", "G", "D", "E", "Yo", "Zh", "Z", "I", "J", "K", "L", "M", "N", "O", "P",
     "R", "S", "T", "U", "F", "H", "C", "Ch", "Sh", "Sch", "Hard", "Y", "Soft", "Eh", "Yu", "Ya" >>

LatLower ==
  << "lat_a", "lat_b", "lat_c", "lat_d", "lat_e", "lat_f", "lat_g", "lat_h", "lat_i",
     "lat_j", "lat_k", "lat_l", "lat_m", "lat_n", "lat_o", "lat_p", "lat_q", "lat_r",
     "lat_s", "lat_t", "lat_u", "lat_v", "lat_w", "lat_x", "lat_y", "lat_z" >>

LatUpper ==
  << "lat_A", "lat_B", "lat_C", "lat_D", "lat_E", "lat_F", "lat_G", "lat_H", "lat_I",
     "lat_J", "lat_K", "lat_L", "lat_M", "lat_N", "lat_O", "lat_P", "lat_Q", "lat_R",
     "lat_S", "lat_T", "lat_U", "lat_V", "lat_W", "lat_X", "lat_Y", "lat_Z" >>

Range(s) == {s[i] : i \in DOMAIN s}

LowerSeq == CyrLower \o LatLower
UpperSeq == CyrUpper \o LatUpper
LowerLetters == Range(LowerSeq)
UpperLetters == Range(UpperSeq)
DigitSeq == << "0", "1", "2", "3", "4", "5", "6", "7", "8", "9" >>
DigitChars == Range(DigitSeq)

\* [А-ЯЁа-яёA-Za-z] of the fast-path patterns; the same characters are the
\* letters str.isalpha() accepts in this alphabet
IsLetter(c) == c \in LowerLetters \/ c \in UpperLetters

\* str.isupper() of one character
IsUpperChar(c) == c \in UpperLetters

\* \s of the patterns, and the characters str.strip() and str.split() drop
IsSpace(c) == c = " "

LowerTable == [c \in UpperLetters |-> LowerSeq[CHOOSE i \in DOMAIN UpperSeq : UpperSeq[i] = c]]
UpperTable == [c \in LowerLetters |-> UpperSeq[CHOOSE i \in DOMAIN LowerSeq : LowerSeq[i] = c]]

LowerChar(c) == IF c \in UpperLetters THEN LowerTable[c] ELSE c
UpperChar(c) == IF c \in LowerLetters THEN UpperTable[c] ELSE c

\* str.lower()
Lower(s) == [i \in DOMAIN s |-> LowerChar(s[i])]

\* str.capitalize(): first character upper-cased, the rest lower-cased
Capitalize(s) == [i \in DOMAIN s |-> IF i = 1 THEN UpperChar(s[i]) ELSE LowerChar(s[i])]

\* str.isalpha(): non-empty and letters only
IsAlpha(s) == Len(s) > 0 /\ \A i \in DOMAIN s : IsLetter(s[i])

\* str.strip()
Strip(s) ==
  LET keep == {i \in DOMAIN s : ~IsSpace(s[i])}
  IN  IF keep = {} THEN << >>
      ELSE LET lo == CHOOSE i \in keep : \A j \in keep : i <= j
               hi == CHOOSE i \in keep : \A j \in keep : j <= i
           IN  SubSeq(s, lo, hi)

\* str.split(): the maximal runs of non-whitespace characters, in order
RECURSIVE SplitFrom(_, _)
SplitFrom(s, i) ==
  IF i > Len(s) THEN << >>
  ELSE IF IsSpace(s[i]) THEN SplitFrom(s, i + 1)
  ELSE LET ends == {j \in i..Len(s) : j = Len(s) \/ IsSpace(s[j + 1])}
           e == CHOOSE j \in ends : \A k \in ends : j <= k
       IN  << SubSeq(s, i, e) >> \o SplitFrom(s, e + 1)

Split(s) == SplitFrom(s, 1)

\* the literal t occurs in s at position i
OccursAt(t, s, i) ==
  /\ i >= 1
  /\ i + Len(t) - 1 <= Len(s)
  /\ \A k \in DOMAIN t : s[i + k - 1] = t[k]

\* t in s (substring test of two str)
IsSubstr(t, s) == \E i \in 1..(Len(s) + 1) : OccursAt(t, s, i)

\* str(n) of an int
RECURSIVE DigitsOf(_)
DigitsOf(n) == IF n < 10 THEN << DigitSeq[n + 1] >> ELSE DigitsOf(n \div 10) \o << DigitSeq[(n % 10) + 1] >>

IntToChars(n) == IF n < 0 THEN << "-" >> \o DigitsOf(0 - n) ELSE DigitsOf(n)

DigitValue(c) == (CHOOSE i \in DOMAIN DigitSeq : DigitSeq[i] = c) - 1

RECURSIVE DigitsValue(_)
DigitsValue(d) == IF Len(d) = 0 THEN 0 ELSE 10 * DigitsValue(SubSeq(d, 1, Len(d) - 1)) + DigitValue(d[Len(d)])

\* int(s) of a str: surrounding whitespace dropped, an optional sign, then
\* decimal digits; anything else raises ValueError (ok = FALSE)
IntParse(s) ==
  LET t == Strip(s)
      signed == Len(t) > 0 /\ t[1] \in {"+", "-"}
      d == IF signed THEN SubSeq(t, 2, Len(t)) ELSE t
      ok == Len(d) > 0 /\ \A i \in DOMAIN d : d[i] \in DigitChars
  IN  [ok |-> ok,
       v |-> IF ~ok THEN 0 ELSE IF signed /\ t[1] = "-" THEN 0 - DigitsValue(d) ELSE DigitsValue(d)]

(***************************************************************************)
(* Python values.  Everything the store holds is a JSON-shaped value:      *)
(* None, a str, an int, a list, or a dict with str keys that keeps its     *)
(* insertion order (a sequence of <<key, value>> pairs with distinct keys).*)
(***************************************************************************)
None == << "none" >>
Str(s) == << "str", s >>
PyInt(n) == << "int", n >>
List(items) == << "list", items >>
Dict(pairs) == << "dict", pairs >>

IsNone(v) == v[1] = "none"
IsStr(v) == v[1] = "str"
IsInt(v) == v[1] = "int"
IsList(v) == v[1] = "list"
IsDict(v) == v[1] = "dict"

\* the keys of a dict, d.keys()
Keys(d) == {d[2][i][1] : i \in DOMAIN d[2]}

\* k in d
Has(d, k) == \E i \in DOMAIN d[2] : d[2][i][1] = k

\* d[k]
Get(d, k) == d[2][CHOOSE i \in DOMAIN d[2] : d[2][i][1] = k][2]

\* d[k] = v: an existing key keeps its place, a new key goes last
Put(d, k, v) ==
  IF Has(d, k)
  THEN Dict([i \in DOMAIN d[2] |-> IF d[2][i][1] = k THEN << k, v >> ELSE d[2][i]])
  ELSE Dict(Append(d[2], << k, v >>))

\* truth value of a value in a condition (if x:, x or y, not x)
Truthy(v) ==
  CASE IsNone(v) -> FALSE
    [] IsInt(v) -> v[2] # 0
    [] OTHER -> Len(v[2]) > 0

\* a == b; two dicts are equal when they hold the same items in any order
RECURSIVE PyEq(_, _)
PyEq(a, b) ==
  IF a[1] # b[1] THEN FALSE
  ELSE CASE IsNone(a) -> TRUE
         [] IsList(a) -> Len(a[2]) = Len(b[2]) /\ \A i \in DOMAIN a[2] : PyEq(a[2][i], b[2][i])
         [] IsDict(a) -> Keys(a) = Keys(b) /\ \A k \in Keys(a) : PyEq(Get(a, k), Get(b, k))
         [] OTHER -> a[2] = b[2]

(***************************************************************************)
(* JSON text.  A text (a model response, a file) is a sequence of tokens:  *)
(* the six punctuation marks, a string literal <<"s", chars>>, an integer  *)
(* literal <<"n", n>>, null, and a bare word <<"w", chars>> that is no     *)
(* JSON (prose around or instead of the structured answer).                *)
(***************************************************************************)
TLBracket == << "[" >>
TRBracket == << "]" >>
TLBrace == << "{" >>
TRBrace == << "}" >>
TComma == << "," >>
TColon == << ":" >>
TNull == << "null" >>
TStr(s) == << "s", s >>
TNum(n) == << "n", n >>
TWord(s) == << "w", s >>

ParseFail == [ok |-> FALSE, v |-> None, n |-> 0]

IsTok(t, i, tok) == i <= Len(t) /\ t[i][1] = tok[1]

\* json.loads of a token sequence: ParseValue reads one value starting at
\* token i and returns it with the index of the token after it
RECURSIVE ParseValue(_, _)
RECURSIVE ParseElems(_, _, _)
RECURSIVE ParseMembers(_, _, _)

ParseElems(t, i, acc) ==
  LET r == ParseValue(t, i)
  IN  IF ~r.ok THEN ParseFail
      ELSE IF IsTok(t, r.n, TComma) THEN ParseElems(t, r.n + 1, Append(acc, r.v))
      ELSE IF IsTok(t, r.n, TRBracket) THEN [ok |-> TRUE, v |-> List(Append(acc, r.v)), n |-> r.n + 1]
      ELSE ParseFail

ParseMembers(t, i, acc) ==
  IF ~(IsTok(t, i, TStr(<< >>)) /\ IsTok(t, i + 1, TColon)) THEN ParseFail
  ELSE LET r == ParseValue(t, i + 2)
           d == Put(acc, t[i][2], r.v)
       IN  IF ~r.ok THEN ParseFail
           ELSE IF IsTok(t, r.n, TComma) THEN ParseMembers(t, r.n + 1, d)
           ELSE IF IsTok(t, r.n, TRBrace) THEN [ok |-> TRUE, v |-> d, n |-> r.n + 1]
           ELSE ParseFail

ParseValue(t, i) ==
  IF i > Len(t) THEN ParseFail
  ELSE CASE t[i][1] = "s" -> [ok |-> TRUE, v |-> Str(t[i][2]), n |-> i + 1]
         [] t[i][1] = "n" -> [ok |-> TRUE, v |-> PyInt(t[i][2]), n |-> i + 1]
         [] t[i][1] = "null" -> [ok |-> TRUE, v |-> None, n |-> i + 1]
         [] t[i][1] = "[" ->
              IF IsTok(t, i + 1, TRBracket) THEN [ok |-> TRUE, v |-> List(<< >>), n |-> i + 2]
              ELSE ParseElems(t, i + 1, << >>)
         [] t[i][1] = "{" ->
              IF IsTok(t, i + 1, TRBrace) THEN [ok |-> TRUE, v |-> Dict(<< >>), n |-> i + 2]
              ELSE ParseMembers(t, i + 1, Dict(<< >>))
         [] OTHER -> ParseFail

\* json.loads(text): the whole text must be one value (ok = FALSE stands for
\* json.JSONDecodeError)
JsonLoads(t) ==
  LET r == ParseValue(t, 1)
  IN  IF r.ok /\ r.n = Len(t) + 1 THEN [ok |-> TRUE, v |-> r.v] ELSE [ok |-> FALSE, v |-> None]

\* json.dumps(value): the text of a value
RECURSIVE JsonDumps(_)
RECURSIVE DumpElems(_, _)
RECURSIVE DumpMembers(_, _)

DumpElems(items, i) ==
  IF i > Len(items) THEN << >>
  ELSE (IF i > 1 THEN << TComma >> ELSE << >>) \o JsonDumps(items[i]) \o DumpElems(items, i + 1)

DumpMembers(pairs, i) ==
  IF i > Len(pairs) THEN << >>
  ELSE (IF i > 1 THEN << TComma >> ELSE << >>) \o << TStr(pairs[i][1]), TColon >>
       \o JsonDumps(pairs[i][2]) \o DumpMembers(pairs, i + 1)

JsonDumps(v) ==
  CASE IsNone(v) -> << TNull >>
    [] IsStr(v) -> << TStr(v[2]) >>
    [] IsInt(v) -> << TNum(v[2]) >>
    [] IsList(v) -> << TLBracket >> \o DumpElems(v[2], 1) \o << TRBracket >>
    [] IsDict(v) -> << TLBrace >> \o DumpMembers(v[2], 1) \o << TRBrace >>

(***************************************************************************)
(* Fixed texts of the program: the keys of the store, then its messages    *)
(***************************************************************************)
\* 'user_profile'
K_user_profile ==
  <<"lat_u", "lat_s", "lat_e", "lat_r", "_", "lat_p", "lat_r", "lat_o", "lat_f", "lat_i",
  "lat_l", "lat_e">>

\* 'name'
K_name ==
  <<"lat_n", "lat_a", "lat_m", "lat_e">>

\* 'nickname'
K_nickname ==
  <<"lat_n", "lat_i", "lat_c", "lat_k", "lat_n", "lat_a", "lat_m", "lat_e">>

\* 'age'
K_age ==
  <<"lat_a", "lat_g", "lat_e">>

\* 'location'
K_location ==
  <<"lat_l", "lat_o", "lat_c", "lat_a", "lat_t", "lat_i", "lat_o", "lat_n">>

\* 'occupation'
K_occupation ==
  <<"lat_o", "lat_c", "lat_c", "lat_u", "lat_p", "lat_a", "lat_t", "lat_i", "lat_o",
  "lat_n">>

\* 'interests'
K_interests ==
  <<"lat_i", "lat_n", "lat_t", "lat_e", "lat_r", "lat_e", "lat_s", "lat_t", "lat_s">>

\* 'goals'
K_goals ==
  <<"lat_g", "lat_o", "lat_a", "lat_l", "lat_s">>

\* 'preferences'
K_preferences ==
  <<"lat_p", "lat_r", "lat_e", "lat_f", "lat_e", "lat_r", "lat_e", "lat_n", "lat_c",
  "lat_e", "lat_s">>

\* 'facts'
K_facts ==
  <<"lat_f", "lat_a", "lat_c", "lat_t", "lat_s">>

\* 'conversations_summary'
K_conversations_summary ==
  <<"lat_c", "lat_o", "lat_n", "lat_v", "lat_e", "lat_r", "lat_s", "lat_a", "lat_t",
  "lat_i", "lat_o", "lat_n", "lat_s", "_", "lat_s", "lat_u", "lat_m", "lat_m", "lat_a",
  "lat_r", "lat_y">>

\* 'important_dates'
K_important_dates ==
  <<"lat_i", "lat_m", "lat_p", "lat_o", "lat_r", "lat_t", "lat_a", "lat_n", "lat_t", "_",
  "lat_d", "lat_a", "lat_t", "lat_e", "lat_s">>

\* 'relationships'
K_relationships ==
  <<"lat_r", "lat_e", "lat_l", "lat_a", "lat_t", "lat_i", "lat_o", "lat_n", "lat_s",
  "lat_h", "lat_i", "lat_p", "lat_s">>

\* 'habits'
K_habits ==
  <<"lat_h", "lat_a", "lat_b", "lat_i", "lat_t", "lat_s">>

\* 'created_at'
K_created_at ==
  <<"lat_c", "lat_r", "lat_e", "lat_a", "lat_t", "lat_e", "lat_d", "_", "lat_a", "lat_t">>

\* 'updated_at'
K_updated_at ==
  <<"lat_u", "lat_p", "lat_d", "lat_a", "lat_t", "lat_e", "lat_d", "_", "lat_a", "lat_t">>

\* 'fact'
K_fact ==
  <<"lat_f", "lat_a", "lat_c", "lat_t">>

\* 'category'
K_category ==
  <<"lat_c", "lat_a", "lat_t", "lat_e", "lat_g", "lat_o", "lat_r", "lat_y">>

\* 'added_at'
K_added_at ==
  <<"lat_a", "lat_d", "lat_d", "lat_e", "lat_d", "_", "lat_a", "lat_t">>

\* 'session'
K_session ==
  <<"lat_s", "lat_e", "lat_s", "lat_s", "lat_i", "lat_o", "lat_n">>

\* 'relation'
K_relation ==
  <<"lat_r", "lat_e", "lat_l", "lat_a", "lat_t", "lat_i", "lat_o", "lat_n">>

\* 'details'
K_details ==
  <<"lat_d", "lat_e", "lat_t", "lat_a", "lat_i", "lat_l", "lat_s">>

\* 'date'
K_date ==
  <<"lat_d", "lat_a", "lat_t", "lat_e">>

\* 'description'
K_description ==
  <<"lat_d", "lat_e", "lat_s", "lat_c", "lat_r", "lat_i", "lat_p", "lat_t", "lat_i",
  "lat_o", "lat_n">>

\* the text get_memory_context returns when nothing is known (line 229)
EmptyMemoryText ==
  <<"P", "A", "M", "Ya", "T", "Soft", " ", "P", "U", "S", "T", "A", "Ya", ":", " ", "Ya",
  " ", "e", "sch", "yo", " ", "n", "i", "ch", "e", "g", "o", " ", "n", "e", " ", "z", "n",
  "a", "yu", " ", "o", " ", "p", "o", "l", "soft", "z", "o", "v", "a", "t", "e", "l", "e",
  ".", " ", "Eh", "t", "o", " ", "p", "e", "r", "v", "y", "j", " ", "r", "a", "z", "g",
  "o", "v", "o", "r", ".">>

\* the words get_system_prompt looks for in the context (line 578)
EmptyMemoryMark ==
  <<"P", "A", "M", "Ya", "T", "Soft", " ", "P", "U", "S", "T", "A", "Ya">>

LabelName ==
  <<"I", "m", "ya", " ", "p", "o", "l", "soft", "z", "o", "v", "a", "t", "e", "l", "ya",
  ":", " ">>

LabelNickname ==
  <<"P", "r", "o", "z", "v", "i", "sch", "e", ":", " ">>

LabelAge ==
  <<"V", "o", "z", "r", "a", "s", "t", ":", " ">>

LabelLocation ==
  <<"M", "e", "s", "t", "o", "p", "o", "l", "o", "zh", "e", "n", "i", "e", ":", " ">>

LabelOccupation ==
  <<"R", "o", "d", " ", "z", "a", "n", "ya", "t", "i", "j", ":", " ">>

LabelInterests ==
  <<"I", "n", "t", "e", "r", "e", "s", "y", ":", " ">>

LabelGoals ==
  <<"C", "e", "l", "i", ":", " ">>

LabelPreferences ==
  <<"P", "r", "e", "d", "p", "o", "ch", "t", "e", "n", "i", "ya", ":", " ">>

LabelRelationships ==
  <<"B", "l", "i", "z", "k", "i", "e", " ", "l", "yu", "d", "i", ":", " ">>

LabelDates ==
  <<"V", "a", "zh", "n", "y", "e", " ", "d", "a", "t", "y", ":", " ">>

LabelHabits ==
  <<"P", "r", "i", "v", "y", "ch", "k", "i", ":", " ">>

LabelFacts ==
  <<"Ch", "t", "o", " ", "ya", " ", "z", "n", "a", "yu", " ", "o", " ", "p", "o", "l",
  "soft", "z", "o", "v", "a", "t", "e", "l", "e", ":", "NL">>

GeneralCategory ==
  <<"lat_g", "lat_e", "lat_n", "lat_e", "lat_r", "lat_a", "lat_l">>

ManualCategory ==
  <<"lat_m", "lat_a", "lat_n", "lat_u", "lat_a", "lat_l">>

\* the fact text 'Пользователя зовут <name>' (lines 437, 631)
NamedPrefix ==
  <<"P", "o", "l", "soft", "z", "o", "v", "a", "t", "e", "l", "ya", " ", "z", "o", "v",
  "u", "t", " ">>

WordZovut ==
  <<"z", "o", "v", "u", "t">>

WordImya ==
  <<"i", "m", "ya">>


Comma == << ",", " " >>
Blank == << "NL", "NL" >>
NewLine == << "NL" >>

(***************************************************************************)
(* Time.  datetime.now() reads a clock that has advanced at every reading. *)
(***************************************************************************)
\* datetime.isoformat(): a text that is different for different instants
IsoFormat(t) == << "T" >> \o IntToChars(t)

\* strftime('%Y-%m-%d'): every instant of a run lies on the same day
DayFormat(t) == << "D", "1" >>

Now(t) == Str(IsoFormat(t))

(***************************************************************************)
(* MemorySystem                                                            *)
(***************************************************************************)
EmptyProfile ==
  Dict(<< << K_name, None >>, << K_nickname, None >>, << K_age, None >>,
          << K_location, None >>, << K_occupation, None >>,
          << K_interests, List(<< >>) >>, << K_goals, List(<< >>) >>,
          << K_preferences, Dict(<< >>) >> >>)

\* _empty_memory(), constructed at instant t
EmptyMemory(t) ==
  Dict(<< << K_user_profile, EmptyProfile >>,
          << K_facts, List(<< >>) >>,
          << K_conversations_summary, List(<< >>) >>,
          << K_important_dates, Dict(<< >>) >>,
          << K_relationships, Dict(<< >>) >>,
          << K_habits, List(<< >>) >>,
          << K_created_at, Now(t) >>,
          << K_updated_at, None >> >>)

Profile(mem) == Get(mem, K_user_profile)

PutProfile(mem, field, value) == Put(mem, K_user_profile, Put(Profile(mem), field, value))

\* _save_memory() at instant t: the store as it is written to MEMORY_FILE
SaveMemory(mem, t) == Put(mem, K_updated_at, Now(t))

\* the entry add_fact appends
FactEntry(fact, category, session, t) ==
  Dict(<< << K_fact, fact >>, << K_category, Str(category) >>,
          << K_added_at, Now(t) >>, << K_session, session >> >>)

\* x in c for a str x: membership in a list, substring of a str, key of a
\* dict; raises TypeError for an int or None
Contains(c, x) ==
  CASE IsList(c) -> \E i \in DOMAIN c[2] : PyEq(c[2][i], Str(x))
    [] IsStr(c) -> IsSubstr(x, c[2])
    [] IsDict(c) -> x \in Keys(c)

ContainsRaises(c) == IsNone(c) \/ IsInt(c)

(***************************************************************************)
(* get_memory_context.  A step of the rendering yields <<"skip">> (the     *)
(* section is left out), <<"text", chars>> or <<"raise">> (the expression  *)
(* raises: a missing key, a value of the wrong type).                      *)
(***************************************************************************)
Skip == << "skip" >>
Raise == << "raise" >>
Text(s) == << "text", s >>

\* repr(v)
RECURSIVE Repr(_)
RECURSIVE ReprElems(_, _)
RECURSIVE ReprItems(_, _)

ReprElems(items, i) ==
  IF i > Len(items) THEN << >>
  ELSE (IF i > 1 THEN Comma ELSE << >>) \o Repr(items[i]) \o ReprElems(items, i + 1)

ReprItems(pairs, i) ==
  IF i > Len(pairs) THEN << >>
  ELSE (IF i > 1 THEN Comma ELSE << >>) \o << "'" >> \o pairs[i][1] \o << "'", ":", " " >>
       \o Repr(pairs[i][2]) \o ReprItems(pairs, i + 1)

Repr(v) ==
  CASE IsNone(v) -> << "N", "o", "n", "e" >>
    [] IsStr(v) -> << "'" >> \o v[2] \o << "'" >>
    [] IsInt(v) -> IntToChars(v[2])
    [] IsList(v) -> << "[" >> \o ReprElems(v[2], 1) \o << "]" >>
    [] IsDict(v) -> << "{" >> \o ReprItems(v[2], 1) \o << "}" >>

\* f"{v}": str(v)
Format(v) == IF IsStr(v) THEN v[2] ELSE Repr(v)

\* sep.join(texts) of a sequence of str
RECURSIVE JoinTexts(_, _, _)
JoinTexts(sep, texts, i) ==
  IF i > Len(texts) THEN << >>
  ELSE (IF i > 1 THEN sep ELSE << >>) \o texts[i] \o JoinTexts(sep, texts, i + 1)

\* the str that iterating a value yields, for sep.join(value): the items
\* of a list, the characters of a str, the keys of a dict
IterTexts(v) ==
  CASE IsList(v) -> [i \in DOMAIN v[2] |-> v[2][i][2]]
    [] IsStr(v) -> [i \in DOMAIN v[2] |-> << v[2][i] >>]
    [] IsDict(v) -> [i \in DOMAIN v[2] |-> v[2][i][1]]

\* sep.join(value) raises TypeError unless every item is a str
JoinRaises(v) ==
  \/ IsNone(v) \/ IsInt(v)
  \/ IsList(v) /\ \E i \in DOMAIN v[2] : ~IsStr(v[2][i])

\* if profile[key]: parts.append(f"<label>{profile[key]}")
ScalarSection(profile, key, label) ==
  IF ~IsDict(profile) \/ ~Has(profile, key) THEN Raise
  ELSE IF Truthy(Get(profile, key)) THEN Text(label \o Format(Get(profile, key)))
  ELSE Skip

\* if value: parts.append(f"<label>{', '.join(value)}")
JoinSection(value, label) ==
  IF ~Truthy(value) THEN Skip
  ELSE IF JoinRaises(value) THEN Raise
  ELSE Text(label \o JoinTexts(Comma, IterTexts(value), 1))

\* a field of a dict that must be there: d[key]
Field(d, key) == IF IsDict(d) /\ Has(d, key) THEN Get(d, key) ELSE Raise

\* if prefs: [f"{k}: {v}" for k, v in prefs.items()]
PreferencesSection(prefs) ==
  IF ~Truthy(prefs) THEN Skip
  ELSE IF ~IsDict(prefs) THEN Raise
  ELSE Text(LabelPreferences \o
            JoinTexts(Comma, [i \in DOMAIN prefs[2] |-> prefs[2][i][1] \o << ":", " " >> \o Format(prefs[2][i][2])], 1))

\* if rels: [f"{name} ({info['relation']})" for name, info in rels.items()]
RelationshipsSection(rels) ==
  IF ~Truthy(rels) THEN Skip
  ELSE IF ~IsDict(rels) \/ \E i \in DOMAIN rels[2] : Field(rels[2][i][2], K_relation) = Raise THEN Raise
  ELSE Text(LabelRelationships \o
            JoinTexts(Comma, [i \in DOMAIN rels[2] |->
                rels[2][i][1] \o << " ", "(" >> \o Format(Get(rels[2][i][2], K_relation)) \o << ")" >>], 1))

\* if dates: [f"{name}: {info['date']}" for name, info in dates.items()]
DatesSection(dates) ==
  IF ~Truthy(dates) THEN Skip
  ELSE IF ~IsDict(dates) \/ \E i \in DOMAIN dates[2] : Field(dates[2][i][2], K_date) = Raise THEN Raise
  ELSE Text(LabelDates \o
            JoinTexts(Comma, [i \in DOMAIN dates[2] |->
                dates[2][i][1] \o << ":", " " >> \o Format(Get(dates[2][i][2], K_date))], 1))

\* the number of facts get_memory_context shows
RecentFacts == 10

\* the first n items of a sequence
FirstN(s, n) == IF Len(s) <= n THEN s ELSE SubSeq(s, 1, n)

\* s[-n:] of a sequence
LastN(s, n) == IF Len(s) <= n THEN s ELSE SubSeq(s, Len(s) - n + 1, Len(s))

\* if facts: facts[-10:], one "- <fact>" line for each
FactsSection(facts) ==
  IF ~Truthy(facts) THEN Skip
  ELSE IF ~IsList(facts) THEN Raise
  ELSE LET recent == LastN(facts[2], RecentFacts)
       IN  IF \E i \in DOMAIN recent : Field(recent[i], K_fact) = Raise THEN Raise
           ELSE Text(LabelFacts \o
                     JoinTexts(NewLine, [i \in DOMAIN recent |-> << "-", " " >> \o Format(Get(recent[i], K_fact))], 1))

\* the sections of get_memory_context in the order it builds them
MemorySections(mem) ==
  LET profile == Field(mem, K_user_profile)
  IN  IF profile = Raise THEN << Raise >>
      ELSE << ScalarSection(profile, K_name, LabelName),
              ScalarSection(profile, K_nickname, LabelNickname),
              ScalarSection(profile, K_age, LabelAge),
              ScalarSection(profile, K_location, LabelLocation),
              ScalarSection(profile, K_occupation, LabelOccupation),
              IF Field(profile, K_interests) = Raise THEN Raise ELSE JoinSection(Get(profile, K_interests), LabelInterests),
              IF Field(profile, K_goals) = Raise THEN Raise ELSE JoinSection(Get(profile, K_goals), LabelGoals),
              IF Field(profile, K_preferences) = Raise THEN Raise ELSE PreferencesSection(Get(profile, K_preferences)),
              IF Field(mem, K_relationships) = Raise THEN Raise ELSE RelationshipsSection(Get(mem, K_relationships)),
              IF Field(mem, K_important_dates) = Raise THEN Raise ELSE DatesSection(Get(mem, K_important_dates)),
              IF Field(mem, K_habits) = Raise THEN Raise ELSE JoinSection(Get(mem, K_habits), LabelHabits),
              IF Field(mem, K_facts) = Raise THEN Raise ELSE FactsSection(Get(mem, K_facts)) >>

\* get_memory_context(): has_any_info is set by every section that is
\* included; with none included the fixed text is returned
IncludedSections(secs) == SelectSeq(secs, LAMBDA r : r[1] = "text")

ContextOf(secs, parts) ==
  IF \E i \in DOMAIN secs : secs[i] = Raise THEN Raise
  ELSE IF Len(parts) = 0 THEN Text(EmptyMemoryText)
  ELSE Text(JoinTexts(Blank, [i \in DOMAIN parts |-> parts[i][2]], 1))

GetMemoryContext(mem) == ContextOf(MemorySections(mem), IncludedSections(MemorySections(mem)))

(***************************************************************************)
(* The store as the code steps through it: st.mem is MemorySystem.memory,  *)
(* st.t the next reading of the clock, st.saves the number of              *)
(* _save_memory() calls made so far in the operation.                      *)
(***************************************************************************)
\* a save that sets updated_at and leaves MEMORY_FILE as it was
SavedInMemoryOnly(st, mem) == [mem |-> SaveMemory(mem, st.t), t |-> st.t + 1, saves |-> st.saves]

\* _save_memory() (lines 101-105)
Saved(st, mem) == [mem |-> SaveMemory(mem, st.t), t |-> st.t + 1, saves |-> st.saves + 1]

\* update_profile without the test of line 121: any field is written
UpdateProfileAnyField(mem, field) == TRUE

\* MemorySystem.update_profile(field, value): the field is written and the
\* store saved only when the field is a key of the profile (returns True)
UpdateProfileKnown(mem, field) == Has(Profile(mem), field)

UpdateProfile(st, field, value) ==
  IF UpdateProfileKnown(st.mem, field) THEN Saved(st, PutProfile(st.mem, field, value)) ELSE st

\* add_fact that skips a text the fact log holds already
AddFactUnlessKnown(st, fact, category, session) ==
  IF \E i \in DOMAIN Get(st.mem, K_facts)[2] : Get(Get(st.mem, K_facts)[2][i], K_fact) = Str(fact)
  THEN st
  ELSE [mem |-> SaveMemory(Put(st.mem, K_facts,
                   List(Append(Get(st.mem, K_facts)[2], FactEntry(Str(fact), category, session, st.t)))),
                   st.t + 1),
        t |-> st.t + 2, saves |-> st.saves + 1]

\* MemorySystem.add_fact(fact, category)
AddFact(st, fact, category, session) ==
  LET entry == FactEntry(Str(fact), category, session, st.t)
      mem == Put(st.mem, K_facts, List(Append(Get(st.mem, K_facts)[2], entry)))
  IN  [mem |-> SaveMemory(mem, st.t + 1), t |-> st.t + 2, saves |-> st.saves + 1]

(***************************************************************************)
(* PersonalAgent._extract_name_directly                                    *)
(***************************************************************************)
\* stop_words of _extract_name_directly (lines 674-676)
StopWords ==
  {
    <<"m", "e", "n", "ya">>,
    <<"z", "o", "v", "u", "t">>,
    <<"m", "o", "e">>,
    <<"ya">>,
    <<"n", "o">>,
    <<"t", "y">>,
    <<"m", "o", "zh", "e", "sh", "soft">>,
    <<"z", "v", "a", "t", "soft">>,
    <<"z", "o", "v", "i">>,
    <<"p", "r", "i", "v", "e", "t">>,
    <<"p", "o", "k", "a">>,
    <<"d", "a">>,
    <<"n", "e", "t">>,
    <<"s", "p", "a", "s", "i", "b", "o">>,
    <<"p", "o", "zh", "a", "l", "u", "j", "s", "t", "a">>,
    <<"k", "a", "k">>,
    <<"ch", "t", "o">>,
    <<"g", "d", "e">>,
    <<"k", "o", "g", "d", "a">>,
    <<"p", "o", "ch", "e", "m", "u">>,
    <<"k", "t", "o">>,
    <<"eh", "t", "o">>,
    <<"t", "o">>,
    <<"v", "s", "e">>,
    <<"v", "s", "yo">> }

\* stop_words of extract_facts_from_conversation (line 435)
FactStopWords ==
  {
    <<"p", "r", "i", "v", "e", "t">>,
    <<"p", "o", "k", "a">>,
    <<"d", "a">>,
    <<"n", "e", "t">>,
    <<"s", "p", "a", "s", "i", "b", "o">>,
    <<"k", "a", "k">>,
    <<"ch", "t", "o">>,
    <<"g", "d", "e">>,
    <<"k", "o", "g", "d", "a">> }

\* name_patterns (lines 695-700).  A pattern is its literal words, each followed by \s+,
\* then the group ([А-ЯЁа-яёA-Za-z]+); tail says that (?:\s*,|\s+но) must follow the group
NamePatterns ==
  <<
     [words |-> << <<"m", "e", "n", "ya">>, <<"z", "o", "v", "u", "t">> >>, tail |-> FALSE],
     [words |-> << <<"m", "o", "e">>, <<"i", "m", "ya">> >>, tail |-> FALSE],
     [words |-> << <<"ya">>, <<"--">> >>, tail |-> FALSE],
     [words |-> << <<"ya">> >>, tail |-> TRUE] >>

\* nickname_patterns (lines 714-720)
NicknamePatterns ==
  <<
     [words |-> << <<"n", "o">>, <<"t", "y">>, <<"m", "o", "zh", "e", "sh", "soft">>, <<"z", "v", "a", "t", "soft">>, <<"m", "e", "n", "ya">> >>, tail |-> FALSE],
     [words |-> << <<"m", "o", "zh", "e", "sh", "soft">>, <<"z", "v", "a", "t", "soft">>, <<"m", "e", "n", "ya">> >>, tail |-> FALSE],
     [words |-> << <<"z", "v", "a", "t", "soft">>, <<"m", "e", "n", "ya">> >>, tail |-> FALSE],
     [words |-> << <<"z", "o", "v", "i">>, <<"m", "e", "n", "ya">> >>, tail |-> FALSE],
     [words |-> << <<"p", "r", "o", "z", "v", "i", "sch", "e">> >>, tail |-> FALSE] >>

WordNo == <<"n", "o">>

\* the first index from i on that holds no whitespace (\s* consumed)
RECURSIVE SkipSpaces(_, _)
SkipSpaces(s, i) == IF i <= Len(s) /\ IsSpace(s[i]) THEN SkipSpaces(s, i + 1) ELSE i

\* the index after the longest run of letters that starts at i
RECURSIVE SkipLetters(_, _)
SkipLetters(s, i) == IF i <= Len(s) /\ IsLetter(s[i]) THEN SkipLetters(s, i + 1) ELSE i

\* the literal words of a pattern matched from index i, each followed by
\* \s+: the index where the group starts, or 0 when they do not match
RECURSIVE MatchWords(_, _, _, _)
MatchWords(words, k, s, i) ==
  IF ~OccursAt(words[k], s, i) THEN 0
  ELSE LET j == i + Len(words[k])
           n == SkipSpaces(s, j)
       IN  IF n = j THEN 0
           ELSE IF k = Len(words) THEN n
           ELSE MatchWords(words, k + 1, s, n)

\* (?:\s*,|\s+но) at index i
TailMatches(s, i) ==
  LET n == SkipSpaces(s, i)
  IN  \/ n <= Len(s) /\ s[n] = ","
      \/ n > i /\ OccursAt(WordNo, s, n)

\* the pattern matched with its first character at index i: the text of the
\* group, or the empty text when there is no match at i
MatchAt(pat, s, i) ==
  LET g == MatchWords(pat.words, 1, s, i)
      e == SkipLetters(s, g)
  IN  IF g = 0 \/ e = g THEN << >>
      ELSE IF pat.tail /\ ~TailMatches(s, e) THEN << >>
      ELSE SubSeq(s, g, e - 1)

\* re.search(pattern, s).group(1): the group of the leftmost match, or the
\* empty text when the pattern matches nowhere
Search(pat, s) ==
  LET hits == {i \in DOMAIN s : MatchAt(pat, s, i) # << >>}
  IN  IF hits = {} THEN << >>
      ELSE MatchAt(pat, s, CHOOSE i \in hits : \A j \in hits : i <= j)

\* a matched name is kept when it is longer than 2 and no stop word (line 709)
NameAccepted(m) == Len(m) > 2 /\ Lower(m) \notin StopWords

\* a matched nickname is kept when it is longer than 1 and no stop word (line 727)
NicknameAccepted(m) == Len(m) > 1 /\ Lower(m) \notin StopWords

\* for pattern in name_patterns: the first pattern whose match is kept gives
\* the name, capitalized; the empty text when none does
RECURSIVE FirstName(_, _)
FirstName(s, k) ==
  IF k > Len(NamePatterns) THEN << >>
  ELSE LET m == Search(NamePatterns[k], s)
       IN  IF m # << >> /\ NameAccepted(m) THEN Capitalize(m) ELSE FirstName(s, k + 1)

RECURSIVE FirstNickname(_, _)
FirstNickname(s, k) ==
  IF k > Len(NicknamePatterns) THEN << >>
  ELSE LET m == Search(NicknamePatterns[k], s)
       IN  IF m # << >> /\ NicknameAccepted(m) THEN Capitalize(m) ELSE FirstNickname(s, k + 1)

\* the word looks like a name (lines 684-688, 431-434)
LooksLikeName(w) == Len(w) > 0 /\ IsUpperChar(w[1]) /\ IsAlpha(w) /\ Len(w) >= 2

\* profile.get(key)
GetOrNone(d, key) == IF Has(d, key) THEN Get(d, key) ELSE None

\* the test of line 681 without the look at the profile
ShortOnly(words, profile) == Len(words) <= 2

\* the short-message test of line 681
ShortAndUnnamed(words, profile) ==
  Len(words) <= 2 /\ ~Truthy(GetOrNone(profile, K_name)) /\ ~Truthy(GetOrNone(profile, K_nickname))

\* not profile.get(key) or profile.get(key) != value (lines 733, 737)
Differs(profile, key, value) == ~Truthy(GetOrNone(profile, key)) \/ ~PyEq(GetOrNone(profile, key), Str(value))

\* _extract_name_directly(user_message) from store st: the store after it,
\* what it returns (found), and raised when words[0] fails on a message
\* without words
\* lines 731-741: the name and then the nickname the patterns gave are
\* written when they differ from the profile's
SetsField(st, key, value) == value # << >> /\ Differs(Profile(st.mem), key, value)

SetField(st, key, value) == IF SetsField(st, key, value) THEN UpdateProfile(st, key, Str(value)) ELSE st

PatternUpdates(st, st1, name, nickname) ==
  [st |-> SetField(st1, K_nickname, nickname),
   found |-> SetsField(st, K_name, name) \/ SetsField(st1, K_nickname, nickname),
   raised |-> FALSE]

\* lines 680-692, then the patterns
ExtractNameFrom(st, words, name, nickname) ==
  IF ShortAndUnnamed(words, Profile(st.mem)) /\ Len(words) = 0
  THEN [st |-> st, found |-> FALSE, raised |-> TRUE]
  ELSE IF ShortAndUnnamed(words, Profile(st.mem)) /\ LooksLikeName(words[1]) /\ Lower(words[1]) \notin StopWords
  THEN [st |-> UpdateProfile(st, K_name, Str(words[1])), found |-> TRUE, raised |-> FALSE]
  ELSE PatternUpdates(st, SetField(st, K_name, name), name, nickname)

ExtractNameDirectly(st, user_message) ==
  ExtractNameFrom(st, Split(Strip(user_message)),
                  FirstName(Strip(Lower(user_message)), 1),
                  FirstNickname(Strip(Lower(user_message)), 1))

(***************************************************************************)
(* extract_facts_from_conversation and update_profile_from_facts           *)
(***************************************************************************)
\* lines 427-437: a message of one or two words whose first word looks like
\* a name gives the fact "Пользователя зовут <word>" without asking the model
FactShortcut(user_message) ==
  LET words == Split(Strip(user_message))
      first_word == IF Len(words) > 0 THEN words[1] ELSE << >>
  IN  IF Len(words) <= 2 /\ LooksLikeName(first_word) /\ Lower(first_word) \notin FactStopWords
      THEN << NamedPrefix \o first_word >>
      ELSE << >>

\* response.find(open), response.rfind(close) + 1 and the two tests of lines
\* 473 and 533: the slice to parse, or ok = FALSE when there is none
BracketSlice(response, open, close) ==
  LET opens == {i \in DOMAIN response : response[i] = open}
      closes == {i \in DOMAIN response : response[i] = close}
      json_start == IF opens = {} THEN -1 ELSE (CHOOSE i \in opens : \A j \in opens : i <= j) - 1
      json_end == IF closes = {} THEN 0 ELSE CHOOSE i \in closes : \A j \in closes : j <= i
  IN  IF json_start >= 0 /\ json_end > json_start
      THEN [ok |-> TRUE, text |-> SubSeq(response, json_start + 1, json_end)]
      ELSE [ok |-> FALSE, text |-> << >>]

\* [f for f in facts if f and isinstance(f, str)] (line 476)
FactTexts(items) ==
  LET kept == SelectSeq(items, LAMBDA f : IsStr(f) /\ Truthy(f))
  IN  [i \in DOMAIN kept |-> kept[i][2]]

\* lines 469-480: the facts read from the model's response; the bare except
\* turns every error of the parsing into the empty list
FactsOf(slice, parsed) ==
  IF slice.ok /\ parsed.ok /\ IsList(parsed.v)
  THEN [raised |-> FALSE, facts |-> FactTexts(parsed.v[2])]
  ELSE [raised |-> FALSE, facts |-> << >>]

\* the parsing with json.loads outside the try: text between the brackets
\* that is no JSON raises
ParseFactsUnguarded(response) ==
  IF /\ BracketSlice(response, TLBracket, TRBracket).ok
     /\ ~JsonLoads(BracketSlice(response, TLBracket, TRBracket).text).ok
  THEN [raised |-> TRUE, facts |-> << >>]
  ELSE FactsOf(BracketSlice(response, TLBracket, TRBracket),
               JsonLoads(BracketSlice(response, TLBracket, TRBracket).text))

ParseFactsResponse(response) ==
  FactsOf(BracketSlice(response, TLBracket, TRBracket),
          JsonLoads(BracketSlice(response, TLBracket, TRBracket).text))

\* lines 529-535: the object read from the model's response
UpdatesOf(slice, parsed) ==
  IF slice.ok /\ parsed.ok /\ IsDict(parsed.v)
  THEN [raised |-> FALSE, ok |-> TRUE, updates |-> parsed.v[2]]
  ELSE [raised |-> FALSE, ok |-> FALSE, updates |-> << >>]

ParseProfileResponse(response) ==
  UpdatesOf(BracketSlice(response, TLBrace, TRBrace),
            JsonLoads(BracketSlice(response, TLBrace, TRBrace).text))

\* line 540: the candidate is looked at when it is not None and its key is a
\* key of the profile
Mergeable(profile, field, value) == ~IsNone(value) /\ Has(profile, field)

\* the loop without the conversion of lines 542-546: the age is taken as it
\* arrives
CoerceAgeKeepsText(field, value) == [ok |-> TRUE, v |-> value]

\* lines 542-546: an age that arrives as a str is converted with int(); when
\* that fails the field is skipped (continue)
CoerceAge(field, value) ==
  IF field = K_age /\ IsStr(value)
  THEN LET p == IntParse(value[2]) IN [ok |-> p.ok, v |-> PyInt(p.v)]
  ELSE [ok |-> TRUE, v |-> value]

\* the loop without the test of line 549: every candidate is written
ShouldWriteAlways(current, value) == TRUE

\* line 549: written only if the field is empty or the new value differs
ShouldWrite(current, value) == IsNone(current) \/ ~PyEq(current, value)

\* lines 539-551: for field, value in profile_updates.items(), from item i on
RECURSIVE ApplyProfileUpdates(_, _, _)
ApplyProfileUpdates(st, updates, i) ==
  IF i > Len(updates) THEN st
  ELSE LET field == updates[i][1]
           value == updates[i][2]
           profile == Profile(st.mem)
           c == CoerceAge(field, value)
       IN  IF ~Mergeable(profile, field, value) THEN ApplyProfileUpdates(st, updates, i + 1)
           ELSE IF ~c.ok THEN ApplyProfileUpdates(st, updates, i + 1)
           ELSE IF ShouldWrite(Get(profile, field), c.v)
           THEN ApplyProfileUpdates(UpdateProfile(st, field, c.v), updates, i + 1)
           ELSE ApplyProfileUpdates(st, updates, i + 1)

\* update_profile_from_facts(model, facts, memory) given the model's response
UpdateProfileFromFacts(st, facts, response) ==
  LET p == ParseProfileResponse(response)
  IN  IF Len(facts) = 0 \/ ~p.ok THEN st ELSE ApplyProfileUpdates(st, p.updates, 1)

(***************************************************************************)
(* Inputs of the model: what the user types and what the model answers     *)
(***************************************************************************)
\* words of the examples
Vasya == <<"V", "a", "s", "ya">>
Petya == <<"P", "e", "t", "ya">>
Kolya == <<"K", "o", "l", "ya">>
Moskva == <<"M", "o", "s", "k", "v", "a">>
Dzhaz == <<"d", "zh", "a", "z">>
Twenty == <<"d", "v", "a", "d", "c", "a", "t", "soft">>
TwentyFive == <<"2", "5">>
Rok == <<"r", "o", "k">>
Muzyka == <<"m", "u", "z", "y", "k", "a">>
Brat == <<"b", "r", "a", "t">>
Prazdnik == <<"p", "r", "a", "z", "d", "n", "i", "k">>
DateText == <<"1", ".", "0", "5">>

\* messages of the user
\* Вася
MsgVasya == <<"V", "a", "s", "ya">>
\* Вася Петя,
MsgVasyaPetya == <<"V", "a", "s", "ya", " ", "P", "e", "t", "ya", ",">>
\* Прозвище Вася
MsgNickname == <<"P", "r", "o", "z", "v", "i", "sch", "e", " ", "V", "a", "s", "ya">>
\* меня зовут Вася, зови меня Вас
MsgIntro ==
  <<"m", "e", "n", "ya", " ", "z", "o", "v", "u", "t", " ", "V", "a", "s", "ya", ",", " ",
  "z", "o", "v", "i", " ", "m", "e", "n", "ya", " ", "V", "a", "s">>
\* Вася Петя
MsgTwoNames == <<"V", "a", "s", "ya", " ", "P", "e", "t", "ya">>
\* зови меня Ян
MsgShortNick == <<"z", "o", "v", "i", " ", "m", "e", "n", "ya", " ", "Ya", "n">>
\* я из Москвы
MsgMoscow == <<"ya", " ", "i", "z", " ", "M", "o", "s", "k", "v", "y">>
\* Привет
MsgHello == <<"P", "r", "i", "v", "e", "t">>

\* facts and replies the model returns
\* живёт в Москве
FactMoscow == <<"zh", "i", "v", "yo", "t", " ", "v", " ", "M", "o", "s", "k", "v", "e">>
\* любит джаз
FactJazz == <<"l", "yu", "b", "i", "t", " ", "d", "zh", "a", "z">>
\* Рад знакомству
ReplyText == <<"R", "a", "d", " ", "z", "n", "a", "k", "o", "m", "s", "t", "v", "u">>
\* garbage
WordGarbage == <<"lat_g", "lat_a", "lat_r", "lat_b", "lat_a", "lat_g", "lat_e">>
\* not
WordNot == <<"lat_n", "lat_o", "lat_t">>
\* json
WordJson == <<"lat_j", "lat_s", "lat_o", "lat_n">>
\* вот
WordHere == <<"v", "o", "t">>

\* field names typed after /set
\* имя
FieldImya == <<"i", "m", "ya">>
\* ник
FieldNik == <<"n", "i", "k">>
\* возраст
FieldVozrast == <<"v", "o", "z", "r", "a", "s", "t">>
\* город
FieldGorod == <<"g", "o", "r", "o", "d">>
\* работа
FieldRabota == <<"r", "a", "b", "o", "t", "a">>
\* ВОЗРАСТ
FieldVozrastCaps == <<"V", "O", "Z", "R", "A", "S", "T">>
\* хобби
FieldHobbi == <<"h", "o", "b", "b", "i">>
\* hobby
K_hobby == <<"lat_h", "lat_o", "lat_b", "lat_b", "lat_y">>

\* field_map of set_profile_field (lines 770-781)
FieldMap ==
  Dict(<< << FieldImya, K_name >>, << K_name, K_name >>,
          << FieldNik, K_nickname >>, << K_nickname, K_nickname >>,
          << FieldVozrast, K_age >>, << K_age, K_age >>,
          << FieldGorod, K_location >>, << K_location, K_location >>,
          << FieldRabota, K_occupation >>, << K_occupation, K_occupation >> >>)

\* a response of the model service: its text, or a requests exception, for
\* which chat_with_model returns "" (lines 418-420)
Answer(text) == [kind |-> "ok", text |-> text]
ServiceError == [kind |-> "error", text |-> << >>]

\* ["живёт в Москве"]
RespFacts == << TLBracket, TStr(FactMoscow), TRBracket >>
\* вот ["живёт в Москве", 25, "любит джаз"]
RespFactsInProse == << TWord(WordHere), TLBracket, TStr(FactMoscow), TComma, TNum(25), TComma, TStr(FactJazz), TRBracket >>
\* []
RespNoFacts == << TLBracket, TRBracket >>
\* garbage {not json
RespGarbage == << TWord(WordGarbage), TLBrace, TWord(WordNot), TWord(WordJson) >>
\* ["живёт в Москве"] not ["любит джаз"]
RespTwoLists == << TLBracket, TStr(FactMoscow), TRBracket, TWord(WordNot), TLBracket, TStr(FactJazz), TRBracket >>
\* ["любит джаз", "любит джаз"]
RespSameFactTwice == << TLBracket, TStr(FactJazz), TComma, TStr(FactJazz), TRBracket >>
\* ["ПАМЯТЬ ПУСТАЯ"]
RespFactMark == << TLBracket, TStr(EmptyMemoryMark), TRBracket >>
\* ] garbage [
RespBackwards == << TRBracket, TWord(WordGarbage), TLBracket >>

\* {"name": "Вася", "location": "Москва"}
RespNameLocation == << TLBrace, TStr(K_name), TColon, TStr(Vasya), TComma, TStr(K_location), TColon, TStr(Moskva), TRBrace >>
\* {"name": null}
RespNameNull == << TLBrace, TStr(K_name), TColon, TNull, TRBrace >>
\* {"age": "25"}
RespAgeText == << TLBrace, TStr(K_age), TColon, TStr(TwentyFive), TRBrace >>
\* {"age": 25}
RespAgeNumber == << TLBrace, TStr(K_age), TColon, TNum(25), TRBrace >>
\* {"age": "двадцать", "location": "Москва"}
RespBadAgeFirst == << TLBrace, TStr(K_age), TColon, TStr(Twenty), TComma, TStr(K_location), TColon, TStr(Moskva), TRBrace >>
\* {"location": "Москва", "age": "двадцать"}
RespBadAgeLast == << TLBrace, TStr(K_location), TColon, TStr(Moskva), TComma, TStr(K_age), TColon, TStr(Twenty), TRBrace >>
\* {"age": 0}
RespAgeZero == << TLBrace, TStr(K_age), TColon, TNum(0), TRBrace >>
\* {"hobby": "джаз", "interests": ["джаз", "джаз"]}
RespInterests == << TLBrace, TStr(K_hobby), TColon, TStr(Dzhaz), TComma, TStr(K_interests), TColon, TLBracket, TStr(Dzhaz), TComma, TStr(Dzhaz), TRBracket, TRBrace >>
\* {"name": ""}
RespEmptyName == << TLBrace, TStr(K_name), TColon, TStr(<< >>), TRBrace >>
\* {"interests": "джаз"}
RespInterestsText == << TLBrace, TStr(K_interests), TColon, TStr(Dzhaz), TRBrace >>
\* {"name": "Вася" garbage
RespBrokenObject == << TLBrace, TStr(K_name), TColon, TStr(Vasya), TWord(WordGarbage) >>

(***************************************************************************)
(* State                                                                   *)
(***************************************************************************)
VARIABLES
  memory,     \* MemorySystem.memory
  disk,       \* the text of MEMORY_FILE
  exported,   \* the text of the file export_memory wrote
  clock,      \* the next reading of datetime.now()
  history,    \* PersonalAgent.conversation_history
  log,        \* the entries of the session's conversation file
  pc,         \* where process_message stands: "idle" between turns
  turn,       \* the locals of the process_message call in progress
  call        \* the operation completed last, and how it ended

vars == << memory, disk, exported, clock, history, log, pc, turn, call >>

\* operations begin while the clock has not passed MaxClock
MaxClock == 2

\* the fact log grows to MaxFacts entries
MaxFacts == 12

\* a file that does not exist
NoFile == << << "absent" >> >>

\* MemorySystem.current_session (line 66)
CurrentSession == Str(DayFormat(0))

NoResponse == [kind |-> "none", text |-> << >>]

\* name_changed is no local of the code: it records for the properties
\* whether the fast path of the turn changed the name of the profile
NoTurn == [user_message |-> << >>, name_extracted |-> FALSE, new_facts |-> << >>,
           response |-> NoResponse, system_prompt |-> << >>, name_changed |-> FALSE]

Store == [mem |-> memory, t |-> clock, saves |-> 0]

\* the store after an operation that ended in st: the file is rewritten by
\* every _save_memory()
StoreBecomes(st) ==
  /\ memory' = st.mem
  /\ clock' = st.t
  /\ disk' = IF st.saves > 0 THEN JsonDumps(st.mem) ELSE disk

Init ==
  /\ memory = EmptyMemory(0)
  /\ disk = NoFile
  /\ exported = NoFile
  /\ clock = 1
  /\ history = << >>
  /\ log = << >>
  /\ pc = "idle"
  /\ turn = NoTurn
  /\ call = [op |-> "init", out |-> "return"]

(***************************************************************************)
(* PersonalAgent.process_message, one action for each stretch of code      *)
(* between two requests to the model                                       *)
(***************************************************************************)
UserEntry(text) == [role |-> "user", content |-> text]
AssistantEntry(text) == [role |-> "assistant", content |-> text]

\* get_system_prompt(): the parts of the text that vary, the context and
\* the choice of the last line (has_memory, line 578)
SystemPrompt(context) == [context |-> context, has_memory |-> ~IsSubstr(EmptyMemoryMark, context)]

\* an exception leaves process_message: the turn is over; net is the answer
\* of the model that was being handled
Aborted(u, net) ==
  /\ pc' = "idle"
  /\ turn' = NoTurn
  /\ call' = [op |-> "process_message", out |-> "raise", user_message |-> u, response |-> net]

\* lines 641-648: the message goes to the history, then the system prompt is
\* built from the store as it is now
EnterGenerateWith(ctx, t) ==
  /\ history' = Append(history, UserEntry(t.user_message))
  /\ IF ctx = Raise
     THEN Aborted(t.user_message, t.response)
     ELSE /\ pc' = "generate"
          /\ turn' = [t EXCEPT !.system_prompt = SystemPrompt(ctx[2])]
          /\ call' = call

EnterGenerate(mem, t) == EnterGenerateWith(GetMemoryContext(mem), t)

\* lines 616-622 up to the request for facts
BeginWith(u, r, shortcut) ==
  /\ StoreBecomes(r.st)
  /\ IF r.raised \/ GetMemoryContext(r.st.mem) = Raise
     THEN Aborted(u, NoResponse)
     ELSE /\ turn' = [NoTurn EXCEPT !.user_message = u, !.name_extracted = r.found,
                                    !.new_facts = shortcut,
                                    !.name_changed = (GetOrNone(Profile(r.st.mem), K_name)
                                                        # GetOrNone(Profile(memory), K_name))]
          /\ pc' = IF shortcut # << >> THEN "store" ELSE "facts"
          /\ call' = call

Begin(u) ==
  /\ pc = "idle"
  /\ clock <= MaxClock
  /\ BeginWith(u, ExtractNameDirectly(Store, u), FactShortcut(u))
  /\ UNCHANGED << exported, history, log >>

FactsParsed(net, p) ==
  IF p.raised
  THEN Aborted(turn.user_message, net)
  ELSE /\ turn' = [turn EXCEPT !.new_facts = p.facts, !.response = net]
       /\ pc' = "store"
       /\ call' = call

\* lines 463-480: the model's answer to the request for facts
FactsResponse(net) ==
  /\ pc = "facts"
  /\ FactsParsed(net, ParseFactsResponse(net.text))
  /\ UNCHANGED << memory, disk, exported, clock, history, log >>

\* line 629: a fact already speaks of the name
HasNameFact(facts) ==
  \E i \in DOMAIN facts : IsSubstr(WordZovut, Lower(facts[i])) \/ IsSubstr(WordImya, Lower(facts[i]))

\* lines 625-631: the facts of the turn with the fact about the name added
WithNameFact(mem, name_extracted, facts) ==
  LET name == GetOrNone(Profile(mem), K_name)
  IN  IF name_extracted /\ Truthy(name) /\ ~HasNameFact(facts)
      THEN Append(facts, NamedPrefix \o Format(name))
      ELSE facts

\* lines 634-635: for fact in new_facts: add_fact(fact)
RECURSIVE AddFacts(_, _, _)
AddFacts(st, facts, i) ==
  IF i > Len(facts) THEN st
  ELSE AddFacts(AddFact(st, facts[i], GeneralCategory, CurrentSession), facts, i + 1)

\* lines 625-639 up to the request for the profile
StoreFactsWith(facts, st) ==
  /\ StoreBecomes(st)
  /\ IF facts # << >>
     THEN /\ pc' = "profile"
          /\ turn' = [turn EXCEPT !.new_facts = facts, !.response = NoResponse]
          /\ call' = call
          /\ history' = history
     ELSE EnterGenerate(st.mem, [turn EXCEPT !.new_facts = facts, !.response = NoResponse])

StoreFacts ==
  /\ pc = "store"
  /\ StoreFactsWith(WithNameFact(memory, turn.name_extracted, turn.new_facts),
                    AddFacts(Store, WithNameFact(memory, turn.name_extracted, turn.new_facts), 1))
  /\ UNCHANGED << exported, log >>

\* a merge whose writes reach MEMORY_FILE only after the generation request
\* has begun
ProfileResponseUnsaved(net, st) ==
  /\ memory' = st.mem
  /\ clock' = st.t
  /\ disk' = disk
  /\ EnterGenerate(st.mem, [turn EXCEPT !.response = net])

\* lines 523-558 and 641-648: the model's answer to the request for the
\* profile, the merge, and the way to the generation request
ProfileResponseWith(net, st) ==
  /\ StoreBecomes(st)
  /\ EnterGenerate(st.mem, [turn EXCEPT !.response = net])

ProfileResponse(net) ==
  /\ pc = "profile"
  /\ ProfileResponseWith(net, UpdateProfileFromFacts(Store, turn.new_facts, net.text))
  /\ UNCHANGED << exported, log >>

\* the entry log_exchange writes (lines 341-346)
LogEntry(user, assistant, facts, t) ==
  [timestamp |-> IsoFormat(t), user |-> user, assistant |-> assistant, extracted_facts |-> facts]

\* lines 649-665: the model's answer to the generation request, the log
\* entry and the answer in the history
GenerateResponse(net) ==
  /\ pc = "generate"
  /\ log' = Append(log, LogEntry(turn.user_message, net.text, turn.new_facts, clock))
  /\ clock' = clock + 1
  /\ history' = Append(history, AssistantEntry(net.text))
  /\ pc' = "idle"
  /\ turn' = NoTurn
  /\ call' = [op |-> "process_message", out |-> "return", user_message |-> turn.user_message,
              response |-> net.text, generation |-> net.kind]
  /\ UNCHANGED << memory, disk, exported >>

\* lines 649-657 when the log file cannot be opened or written: open() or
\* write() raises OSError in log_exchange (lines 348-349), the exception
\* leaves process_message before line 660, and interactive_mode prints it
\* and reads the next input (lines 911-912); the time was read at line 342
LogWriteFails(net) ==
  /\ pc = "generate"
  /\ Aborted(turn.user_message, turn.response)
  /\ clock' = clock + 1
  /\ UNCHANGED << memory, disk, exported, history, log >>

\* KeyboardInterrupt while chat_with_model waits for the generation: it is no
\* RequestException, so it leaves process_message, and interactive_mode ends
\* the session (lines 908-910)
InterruptGeneration ==
  /\ pc = "generate"
  /\ pc' = "exited"
  /\ turn' = NoTurn
  /\ call' = [op |-> "process_message", out |-> "interrupt", user_message |-> turn.user_message,
              response |-> NoResponse]
  /\ UNCHANGED << memory, disk, exported, clock, history, log >>

(***************************************************************************)
(* The commands of interactive_mode between two turns                      *)
(***************************************************************************)
\* an operation of the store or a command that ended in st with result out;
\* before is the store the operation found
Completes(op, args, out, st) ==
  /\ StoreBecomes(st)
  /\ call' = [op |-> op, args |-> args, out |-> out, before |-> memory, saves |-> st.saves]
  /\ UNCHANGED << exported, pc, turn >>

\* field_map.get(field.lower()) (line 783)
FieldKey(field) == GetOrNone(FieldMap, Lower(field))

\* set_profile_field(field, value) (lines 768-788): an unknown field prints
\* the list of the fields, a known one is passed to update_profile
SetProfileFieldTo(st, field, value) ==
  IF FieldKey(field) # None THEN UpdateProfile(st, FieldKey(field), Str(value)) ELSE st

SetProfileField(field, value) ==
  /\ pc = "idle"
  /\ clock <= MaxClock
  /\ Completes("set_profile_field", << field, value >>,
               IF FieldKey(field) # None THEN "set" ELSE "unknown field",
               SetProfileFieldTo(Store, field, value))
  /\ UNCHANGED << history, log >>

\* add_fact_manual(fact) (lines 763-766)
AddFactManual(fact) ==
  /\ pc = "idle"
  /\ clock <= MaxClock
  /\ Completes("add_fact_manual", << fact >>, "return", AddFact(Store, fact, ManualCategory, CurrentSession))
  /\ UNCHANGED << history, log >>

\* a clear_history that also saves the store
ClearHistoryAndSave ==
  /\ pc = "idle"
  /\ history # << >>
  /\ history' = << >>
  /\ StoreBecomes(Saved(Store, memory))
  /\ call' = [op |-> "clear_history", out |-> "return"]
  /\ UNCHANGED << exported, log, pc, turn >>

\* clear_history() (lines 743-746)
ClearHistory ==
  /\ pc = "idle"
  /\ history # << >>
  /\ history' = << >>
  /\ call' = [op |-> "clear_history", out |-> "return"]
  /\ UNCHANGED << memory, disk, exported, clock, log, pc, turn >>

(***************************************************************************)
(* The operations of MemorySystem called on their own                      *)
(***************************************************************************)
\* update_profile(field, value) (lines 119-125)
UpdateProfileApi(field, value) ==
  /\ pc = "idle"
  /\ clock <= MaxClock
  /\ Completes("update_profile", << field, value >>,
               IF UpdateProfileKnown(memory, field) THEN "True" ELSE "False",
               UpdateProfile(Store, field, value))
  /\ UNCHANGED << history, log >>

\* x not in c ... c.append(x) raises for a c that is no list: TypeError from
\* the test, AttributeError from append
AdderRaises(c, x) == ContainsRaises(c) \/ (~Contains(c, x) /\ ~IsList(c))

\* an adder that appends without the test for the value
AdderAppendsAlways(c, x) == ~ContainsRaises(c) /\ IsList(c)

\* the test of lines 129, 135, 164
AdderAppends(c, x) == ~ContainsRaises(c) /\ ~Contains(c, x) /\ IsList(c)

Appended(c, x) == List(Append(c[2], Str(x)))

\* add_interest / add_goal (lines 127-137) on the profile's list under key
AddToProfileList(st, key, x) ==
  IF AdderAppends(Get(Profile(st.mem), key), x)
  THEN Saved(st, PutProfile(st.mem, key, Appended(Get(Profile(st.mem), key), x)))
  ELSE st

\* add_habit (lines 162-166)
AddToHabits(st, x) ==
  IF AdderAppends(Get(st.mem, K_habits), x)
  THEN Saved(st, Put(st.mem, K_habits, Appended(Get(st.mem, K_habits), x)))
  ELSE st

AdderOut(c, x) == IF AdderRaises(c, x) THEN "raise" ELSE "return"

AddInterest(x) ==
  /\ pc = "idle"
  /\ clock <= MaxClock
  /\ Completes("add_interest", << x >>, AdderOut(Get(Profile(memory), K_interests), x),
               AddToProfileList(Store, K_interests, x))
  /\ UNCHANGED << history, log >>

AddGoal(x) ==
  /\ pc = "idle"
  /\ clock <= MaxClock
  /\ Completes("add_goal", << x >>, AdderOut(Get(Profile(memory), K_goals), x),
               AddToProfileList(Store, K_goals, x))
  /\ UNCHANGED << history, log >>

AddHabit(x) ==
  /\ pc = "idle"
  /\ clock <= MaxClock
  /\ Completes("add_habit", << x >>, AdderOut(Get(memory, K_habits), x), AddToHabits(Store, x))
  /\ UNCHANGED << history, log >>

\* add_preference(key, value) (lines 139-142)
AddPreferenceTo(st, key, value) ==
  IF IsDict(Get(Profile(st.mem), K_preferences))
  THEN Saved(st, PutProfile(st.mem, K_preferences, Put(Get(Profile(st.mem), K_preferences), key, Str(value))))
  ELSE st

AddPreference(key, value) ==
  /\ pc = "idle"
  /\ clock <= MaxClock
  /\ Completes("add_preference", << key, value >>,
               IF IsDict(Get(Profile(memory), K_preferences)) THEN "return" ELSE "raise",
               AddPreferenceTo(Store, key, value))
  /\ UNCHANGED << history, log >>

\* the entry of add_relationship (lines 146-150)
RelationshipEntry(relation, details, t) ==
  Dict(<< << K_relation, Str(relation) >>, << K_details, Str(details) >>, << K_added_at, Now(t) >> >>)

\* the entry of add_important_date (lines 155-159)
DateEntry(date, description, t) ==
  Dict(<< << K_date, Str(date) >>, << K_description, Str(description) >>, << K_added_at, Now(t) >> >>)

\* self.memory[key][name] = entry; _save_memory(): added_at is read first
AddEntryTo(st, key, name, entry) ==
  [mem |-> SaveMemory(Put(st.mem, key, Put(Get(st.mem, key), name, entry)), st.t + 1),
   t |-> st.t + 2, saves |-> st.saves + 1]

\* add_relationship(name, relation) (lines 144-151)
AddRelationship(name, relation) ==
  /\ pc = "idle"
  /\ clock <= MaxClock
  /\ Completes("add_relationship", << name, relation >>, "return",
               AddEntryTo(Store, K_relationships, name, RelationshipEntry(relation, << >>, clock)))
  /\ UNCHANGED << history, log >>

\* add_important_date(name, date) (lines 153-160)
AddImportantDate(name, date) ==
  /\ pc = "idle"
  /\ clock <= MaxClock
  /\ Completes("add_important_date", << name, date >>, "return",
               AddEntryTo(Store, K_important_dates, name, DateEntry(date, << >>, clock)))
  /\ UNCHANGED << history, log >>

\* add_fact(fact) (lines 107-117)
AddFactApi(fact) ==
  /\ pc = "idle"
  /\ clock <= MaxClock
  /\ Completes("add_fact", << fact >>, "return", AddFact(Store, fact, GeneralCategory, CurrentSession))
  /\ UNCHANGED << history, log >>

\* add_fact(fact) (lines 107-117) called again and again: a fact log longer
\* than the ten entries get_memory_context shows
AddFactToLog(fact) ==
  /\ pc = "idle"
  /\ Len(Get(memory, K_facts)[2]) < MaxFacts
  /\ Completes("add_fact", << fact >>, "return", AddFact(Store, fact, GeneralCategory, CurrentSession))
  /\ UNCHANGED << history, log >>

\* update_profile_from_facts(model, facts, memory) with the model's answer
\* net (lines 483-558); it returns whether a field was written
MergeCall(facts, net) ==
  /\ pc = "idle"
  /\ clock <= MaxClock
  /\ Completes("update_profile_from_facts", << facts, net.text >>,
               IF UpdateProfileFromFacts(Store, facts, net.text).saves > 0 THEN "True" ELSE "False",
               UpdateProfileFromFacts(Store, facts, net.text))
  /\ UNCHANGED << history, log >>

\* export_memory(filepath) (lines 311-314)
ExportMemory ==
  /\ pc = "idle"
  /\ exported' = JsonDumps(memory)
  /\ call' = [op |-> "export_memory", out |-> "return"]
  /\ UNCHANGED << memory, disk, clock, history, log, pc, turn >>

\* an update that sets only the keys the dict does not hold yet
RECURSIVE DictUpdateMissingOnly(_, _, _)
DictUpdateMissingOnly(d, items, i) ==
  IF i > Len(items) THEN d
  ELSE DictUpdateMissingOnly(IF Has(d, items[i][1]) THEN d ELSE Put(d, items[i][1], items[i][2]),
                             items, i + 1)

\* dict.update(data): every key of data is set
RECURSIVE DictUpdate(_, _, _)
DictUpdate(d, items, i) ==
  IF i > Len(items) THEN d ELSE DictUpdate(Put(d, items[i][1], items[i][2]), items, i + 1)

\* an import that fills in only the keys the store does not have
ImportKeepsStore(st, data) ==
  IF data.ok /\ IsDict(data.v) THEN Saved(st, DictUpdateMissingOnly(st.mem, data.v[2], 1)) ELSE st

\* import_memory(filepath) (lines 316-321) of the text the file holds
ImportMemoryInto(st, data) ==
  IF data.ok /\ IsDict(data.v) THEN Saved(st, DictUpdate(st.mem, data.v[2], 1)) ELSE st

\* a MemorySystem constructed at t when MEMORY_FILE does not exist
FreshStore(t) == [mem |-> EmptyMemory(t), t |-> t + 1, saves |-> 0]

\* import_memory into the store of the running program
ImportMemory ==
  /\ pc = "idle"
  /\ clock <= MaxClock
  /\ exported # NoFile
  /\ Completes("import_memory", << exported >>, "return", ImportMemoryInto(Store, JsonLoads(exported)))
  /\ UNCHANGED << history, log >>

\* import_memory(filepath) of a file the user names: json.load raises for a
\* text that is no JSON and nothing is written
ImportFile(text) ==
  /\ pc = "idle"
  /\ clock <= MaxClock
  /\ JsonLoads(text).ok => IsDict(JsonLoads(text).v)
  /\ Completes("import_memory", << text >>, IF JsonLoads(text).ok THEN "return" ELSE "raise",
               ImportMemoryInto(Store, JsonLoads(text)))
  /\ UNCHANGED << history, log >>

\* main() with --import-memory (lines 977-981) in an installation whose
\* MEMORY_FILE does not exist: a new, empty store takes the export
ImportIntoFresh ==
  /\ pc = "idle"
  /\ clock <= MaxClock
  /\ exported # NoFile
  /\ Completes("import_into_fresh", << exported >>, "return",
               ImportMemoryInto(FreshStore(clock), JsonLoads(exported)))
  /\ UNCHANGED << history, log >>

(***************************************************************************)
(* Starting the program on the MEMORY_FILE an earlier run, or anything     *)
(* else, left behind                                                       *)
(***************************************************************************)
\* _load_memory() at instant t (lines 68-77): the value json.load returns,
\* whatever it is, or _empty_memory() when the file does not exist or
\* json.load raises
LoadMemory(file, t) ==
  IF file # NoFile /\ JsonLoads(file).ok THEN JsonLoads(file).v ELSE EmptyMemory(t)

\* MemorySystem() at instant t: the clock is read for created_at only when
\* _empty_memory() runs
LoadStore(file, t) ==
  [mem |-> LoadMemory(file, t),
   t |-> IF file # NoFile /\ JsonLoads(file).ok THEN t ELSE t + 1,
   saves |-> 0]

\* the program is ended and started again: PersonalAgent.__init__ (lines
\* 568-573) loads the store, the history is empty and the logger starts the
\* file of a new session
Restart ==
  /\ pc = "idle"
  /\ clock <= MaxClock
  /\ memory' = LoadStore(disk, clock).mem
  /\ clock' = LoadStore(disk, clock).t
  /\ history' = << >>
  /\ log' = << >>
  /\ call' = [op |-> "load", out |-> "return"]
  /\ UNCHANGED << disk, exported, pc, turn >>

\* self.memory[key] can be read: the store is a dict that has the key
Readable(mem, key) == IsDict(mem) /\ Has(mem, key)

\* an operation raises (KeyError for a missing key, TypeError for a store
\* that is no dict) after it has read the clock ticks times
RaisesAfter(op, args, ticks) ==
  /\ clock' = clock + ticks
  /\ call' = [op |-> op, args |-> args, out |-> "raise", before |-> memory, saves |-> 0]
  /\ UNCHANGED << memory, disk, exported, pc, turn >>

\* add_fact(fact) (lines 107-117) on whatever was loaded: the entry is built,
\* then self.memory['facts'] is read
AddFactLoaded(fact) ==
  /\ pc = "idle"
  /\ clock <= MaxClock
  /\ Readable(memory, K_facts) => IsList(Get(memory, K_facts))
  /\ IF Readable(memory, K_facts)
     THEN Completes("add_fact", << fact >>, "return", AddFact(Store, fact, GeneralCategory, CurrentSession))
     ELSE RaisesAfter("add_fact", << fact >>, 1)
  /\ UNCHANGED << history, log >>

\* set_profile_field(field, value) (lines 768-788) on whatever was loaded:
\* update_profile reads self.memory['user_profile'] for a known name
SetProfileFieldLoaded(field, value) ==
  /\ pc = "idle"
  /\ clock <= MaxClock
  /\ Readable(memory, K_user_profile) => IsDict(Profile(memory))
  /\ IF Readable(memory, K_user_profile) \/ FieldKey(field) = None
     THEN Completes("set_profile_field", << field, value >>,
                    IF FieldKey(field) # None THEN "set" ELSE "unknown field",
                    IF FieldKey(field) # None THEN SetProfileFieldTo(Store, field, value) ELSE Store)
     ELSE RaisesAfter("set_profile_field", << field, value >>, 0)
  /\ UNCHANGED << history, log >>

(***************************************************************************)
(* Specifications                                                          *)
(***************************************************************************)
Messages == {MsgVasya, MsgVasyaPetya, MsgTwoNames, MsgNickname, MsgIntro, MsgShortNick, MsgMoscow, MsgHello}

FactAnswers == {Answer(RespFacts), Answer(RespFactsInProse), Answer(RespNoFacts), Answer(RespGarbage),
                Answer(RespTwoLists), Answer(RespBackwards), Answer(RespSameFactTwice),
                Answer(RespFactMark), ServiceError}

ProfileAnswers == {Answer(RespNameLocation), Answer(RespGarbage), Answer(RespBrokenObject), ServiceError}

Replies == {Answer(ReplyText), ServiceError}

SetFields == {FieldImya, FieldVozrastCaps, FieldHobbi, K_interests}

SetValues == {Kolya, TwentyFive}

\* a session of the agent: turns, and commands between the turns
Next ==
  \/ \E u \in Messages : Begin(u)
  \/ \E net \in FactAnswers : FactsResponse(net)
  \/ StoreFacts
  \/ \E net \in ProfileAnswers : ProfileResponse(net)
  \/ \E net \in Replies : GenerateResponse(net)
  \/ \E net \in Replies : LogWriteFails(net)
  \/ InterruptGeneration
  \/ \E field \in SetFields, value \in SetValues : SetProfileField(field, value)
  \/ AddFactManual(FactJazz)
  \/ ClearHistory

Spec == Init /\ [][Next]_vars

ApiFields == {K_name, K_age, K_hobby}

ApiValues == {Str(Vasya), PyInt(0)}

ListValues == {Dzhaz, Rok}

MergeAnswers == {Answer(RespNameLocation), Answer(RespNameNull), Answer(RespAgeText), Answer(RespAgeNumber),
                 Answer(RespBadAgeFirst), Answer(RespBadAgeLast), Answer(RespAgeZero),
                 Answer(RespInterests), Answer(RespInterestsText), Answer(RespEmptyName),
                 Answer(RespGarbage), ServiceError}

\* files import_memory is given
\* {"habits": ["рок", "рок"]}
FileHabits == << TLBrace, TStr(K_habits), TColon, TLBracket, TStr(Rok), TComma, TStr(Rok), TRBracket, TRBrace >>
\* {"facts": []}
FileNoFacts == << TLBrace, TStr(K_facts), TColon, TLBracket, TRBracket, TRBrace >>

ImportFiles == {FileHabits, FileNoFacts, RespGarbage}

\* the operations of the store in any order
NextStore ==
  \/ \E field \in ApiFields, value \in ApiValues : UpdateProfileApi(field, value)
  \/ \E field \in SetFields, value \in SetValues : SetProfileField(field, value)
  \/ \E x \in ListValues : AddInterest(x)
  \/ \E x \in ListValues : AddGoal(x)
  \/ \E x \in ListValues : AddHabit(x)
  \/ AddPreference(Muzyka, Dzhaz)
  \/ AddRelationship(Petya, Brat)
  \/ AddImportantDate(Prazdnik, DateText)
  \/ AddFactApi(FactMoscow)
  \/ \E net \in MergeAnswers : MergeCall(<< FactMoscow >>, net)
  \/ ExportMemory
  \/ ImportMemory
  \/ ImportIntoFresh
  \/ \E text \in ImportFiles : ImportFile(text)

SpecStore == Init /\ [][NextStore]_vars
\* what MEMORY_FILE holds when the program is first started
\* {"facts": [
SnapTruncated == << TLBrace, TStr(K_facts), TColon, TLBracket >>
\* {}
SnapEmptyObject == << TLBrace, TRBrace >>
\* []
SnapList == << TLBracket, TRBracket >>
\* {"facts": []}
SnapFactsOnly == << TLBrace, TStr(K_facts), TColon, TLBracket, TRBracket, TRBrace >>
\* the file a run wrote in which the name was set
SnapStore == JsonDumps(SaveMemory(PutProfile(EmptyMemory(0), K_name, Str(Vasya)), 0))

Snapshots == {NoFile, << >>, SnapTruncated, SnapEmptyObject, SnapList, SnapFactsOnly, SnapStore}

\* the state after MemorySystem() and PersonalAgent() were constructed on a
\* MEMORY_FILE that holds any of the snapshots
InitLoad ==
  /\ disk \in Snapshots
  /\ memory = LoadMemory(disk, 0)
  /\ exported = NoFile
  /\ clock = 1
  /\ history = << >>
  /\ log = << >>
  /\ pc = "idle"
  /\ turn = NoTurn
  /\ call = [op |-> "load", out |-> "return"]

\* runs of the program, one after the other, on the same MEMORY_FILE
NextLoad ==
  \/ Restart
  \/ \E fact \in {FactMoscow, FactJazz} : AddFactLoaded(fact)
  \/ \E field \in SetFields, value \in SetValues : SetProfileFieldLoaded(field, value)

SpecLoad == InitLoad /\ [][NextLoad]_vars
\* a store that only gains facts
NextFacts == \E fact \in {FactMoscow, FactJazz} : AddFactToLog(fact)

SpecFacts == Init /\ [][NextFacts]_vars
(***************************************************************************)
(* Properties                                                              *)
(***************************************************************************)
NameOf(mem) == GetOrNone(Profile(mem), K_name)
NicknameOf(mem) == GetOrNone(Profile(mem), K_nickname)

\* C1: when the generation request of a turn fails because the service
\* cannot be reached, the turn is aborted with an error for the caller, and
\* neither the history nor the log gains an assistant entry for the turn
C1_GenerationFailureAborts ==
  [][(pc = "generate" /\ pc' = "idle" /\ call'.generation = "error")
       => (call'.out = "raise" /\ history' = history /\ log' = log)]_vars

ScalarKeys == {K_name, K_nickname, K_age, K_location, K_occupation}

ProfileKeys == ScalarKeys \cup {K_interests, K_goals, K_preferences}

\* something is known: a scalar field of the profile is not None, or a
\* collection of the store holds something
Present(mem) ==
  \/ \E f \in ScalarKeys : ~IsNone(Get(Profile(mem), f))
  \/ \E f \in {K_interests, K_goals, K_preferences} : Truthy(Get(Profile(mem), f))
  \/ \E k \in {K_relationships, K_important_dates, K_habits, K_facts} : Truthy(Get(mem, k))

\* C2: get_memory_context returns the fixed text "nothing known" for every
\* empty store, and never returns it for a store in which a scalar field of
\* the profile is set, whatever its value, or an interest, goal, preference,
\* relationship, date, habit or fact is present
C2_SentinelIffEmpty ==
  IF Present(memory)
  THEN GetMemoryContext(memory) # Text(EmptyMemoryText)
  ELSE GetMemoryContext(memory) = Text(EmptyMemoryText)

\* the names set_profile_field knows, in lower case
FieldNames ==
  {FieldImya, FieldNik, FieldVozrast, FieldGorod, FieldRabota,
   K_name, K_nickname, K_age, K_location, K_occupation}

Unchanged == memory = call.before /\ call.saves = 0

\* C3: for every field name outside the recognized set, update_profile and
\* set_profile_field leave the whole store as it was (profile, updated_at,
\* nothing saved) and tell the caller that they failed
C3_UnknownFieldRejected ==
  /\ (call.op = "update_profile" /\ call.args[1] \notin ProfileKeys)
       => (call.out = "False" /\ Unchanged)
  /\ (call.op = "set_profile_field" /\ Lower(call.args[1]) \notin FieldNames)
       => (call.out = "unknown field" /\ Unchanged)

C3_Witness ==
  /\ call.op = "update_profile"
  /\ call.args[1] = K_hobby
  /\ call.out = "False"
  /\ Present(memory)

\* the structured update a call of update_profile_from_facts received
IsMerge == call.op = "update_profile_from_facts"
Update == JsonLoads(call.args[2])
HasUpdate == IsMerge /\ Update.ok /\ IsDict(Update.v)
Raw(f) == GetOrNone(Update.v, f)

AllDigits(s) == Len(s) > 0 /\ \A i \in DOMAIN s : s[i] \in DigitChars

\* the candidate for a field: the value the update holds for it, an age
\* given as a string of digits taken as the number, one given as any other
\* string dropped
Candidate(f) ==
  IF f = K_age /\ IsStr(Raw(f))
  THEN (IF AllDigits(Raw(f)[2]) THEN PyInt(DigitsValue(Raw(f)[2])) ELSE None)
  ELSE Raw(f)

Before(f) == Get(Profile(call.before), f)
After(f) == Get(Profile(memory), f)
Offered(f) == ~IsNone(Candidate(f)) /\ (IsNone(Before(f)) \/ ~PyEq(Before(f), Candidate(f)))

\* C4: when a structured update is merged into the profile, a field is
\* written only if its candidate is not null and the current value is null
\* or differs from it; every other field keeps its value, and an update
\* that offers nothing new writes nothing
C4_MergeConflictAvoidance ==
  HasUpdate =>
    /\ \A f \in ProfileKeys : After(f) # Before(f) => Offered(f)
    /\ (\A f \in ProfileKeys : ~Offered(f)) => Unchanged

C4_Witness ==
  /\ IsMerge
  /\ call.args[2] = RespNameLocation
  /\ Before(K_name) = Str(Vasya)
  /\ IsNone(Before(K_location))
  /\ After(K_name) = Str(Vasya)
  /\ After(K_location) = Str(Moskva)
  /\ call.saves = 1

\* C5: the merge writes only name, nickname, age, location and occupation;
\* interests, goals and preferences are never modified by it
C5_MergeWritesScalarsOnly ==
  IsMerge => \A f \in ProfileKeys \ ScalarKeys : After(f) = Before(f)

\* C6: an age that arrives as a string of digits is stored as that integer;
\* an age that is a string but no number leaves age as it was, and the other
\* fields of the same update are applied, before or after it
C6_AgeCoercion ==
  (HasUpdate /\ IsStr(Raw(K_age))) =>
    IF AllDigits(Raw(K_age)[2])
    THEN After(K_age) = PyInt(DigitsValue(Raw(K_age)[2]))
    ELSE /\ After(K_age) = Before(K_age)
         /\ \A f \in ScalarKeys \ {K_age} : Offered(f) => After(f) = Candidate(f)

C6_Witness ==
  /\ IsMerge
  /\ call.args[2] = RespBadAgeFirst
  /\ IsNone(After(K_age))
  /\ IsNone(Before(K_location))
  /\ After(K_location) = Str(Moskva)

\* an export followed at once by its import into a new, empty store
RoundTrip == call.op = "export_memory" /\ call'.op = "import_into_fresh"

SameField(k) == Has(memory', k) /\ PyEq(Get(memory', k), Get(memory, k))

\* C7 as stated: export followed by import into a freshly emptied store
\* gives a store equal to the exported one in every top-level field,
\* created_at and updated_at included
C7_RoundTripExact ==
  [][RoundTrip => \A k \in Keys(memory) : SameField(k)]_vars

\* C7 amended: export followed by import into a freshly emptied store gives
\* a store equal to the exported one in every top-level field but
\* updated_at, which holds the time of the import's save
C7_RoundTripButUpdatedAt ==
  [][RoundTrip => /\ \A k \in Keys(memory) \ {K_updated_at} : SameField(k)
                  /\ Get(memory', K_updated_at) = Now(clock' - 1)]_vars

C7_Witness ==
  /\ call.op = "import_into_fresh"
  /\ NameOf(memory) = Str(Vasya)
  /\ call.saves = 1

IsAdder == call.op \in {"add_interest", "add_goal", "add_habit"}

\* the list an adder works on
AdderList(mem) ==
  CASE call.op = "add_interest" -> Get(Profile(mem), K_interests)
    [] call.op = "add_goal" -> Get(Profile(mem), K_goals)
    [] call.op = "add_habit" -> Get(mem, K_habits)

Occurrences(c, x) == IF IsList(c) THEN Cardinality({i \in DOMAIN c[2] : c[2][i] = Str(x)}) ELSE 0

\* C8: after add_interest, add_goal or add_habit of a string, from any
\* store, the list holds exactly one entry equal to it, and a call that
\* found the string in the list left the list as it was
C8_AdderIdempotent ==
  IsAdder =>
    /\ call.out = "return"
    /\ Occurrences(AdderList(memory), call.args[1]) = 1
    /\ Occurrences(AdderList(call.before), call.args[1]) > 0 => AdderList(memory) = AdderList(call.before)

\* a turn has just taken the message turn'.user_message through the fast path
FastPathStep == pc = "idle" /\ pc' \in {"facts", "store"}

FirstToken(u) == Split(Strip(u))[1]

\* at most two tokens, the first capitalized, alphabetic, of two characters
\* or more and no stop word
ShortNameUtterance(u) ==
  /\ Len(Split(Strip(u))) \in {1, 2}
  /\ LooksLikeName(FirstToken(u))
  /\ Lower(FirstToken(u)) \notin StopWords

Unnamed(mem) == ~Truthy(NameOf(mem)) /\ ~Truthy(NicknameOf(mem))

NamesKept == NameOf(memory') = NameOf(memory) /\ NicknameOf(memory') = NicknameOf(memory)

\* no name pattern and no nickname pattern yields an accepted word
NoPattern(u) == FirstName(Strip(Lower(u)), 1) = << >> /\ FirstNickname(Strip(Lower(u)), 1) = << >>

\* C9 as stated: a short utterance that looks like a name sets name to its
\* first token when the profile has neither name nor nickname, and leaves
\* name and nickname as they were when the profile has one of them
C9_ShortUtterance ==
  [][(FastPathStep /\ ShortNameUtterance(turn'.user_message)) =>
        IF Unnamed(memory)
        THEN NameOf(memory') = Str(FirstToken(turn'.user_message))
        ELSE NamesKept]_vars

\* C9 amended: as stated, but when the profile has a name or a nickname the
\* utterance leaves them as they were unless a name or nickname pattern
\* matches it
C9_ShortUtteranceOrPattern ==
  [][(FastPathStep /\ ShortNameUtterance(turn'.user_message)) =>
        IF Unnamed(memory)
        THEN NameOf(memory') = Str(FirstToken(turn'.user_message))
        ELSE NoPattern(turn'.user_message) => NamesKept]_vars

C9_Witness ==
  /\ pc = "store"
  /\ turn.user_message = MsgVasya
  /\ ~turn.name_extracted
  /\ NameOf(memory) = Str(Kolya)

\* answers that are not the array or the object asked for, or are missing
MalformedFacts == {Answer(RespGarbage), Answer(RespTwoLists), Answer(RespBackwards), ServiceError}

MalformedProfile == {Answer(RespGarbage), Answer(RespBrokenObject), ServiceError}

\* the answer the step handled: the turn holds it, or the call when the
\* turn was aborted
Handled == IF pc' = "idle" THEN call'.response ELSE turn'.response

StoreKept == memory' = memory /\ disk' = disk

\* C10: a malformed or missing answer to the request for facts or for the
\* profile raises no error and yields nothing: the store is not changed by
\* the step and the turn goes on towards the generation request
C10_ExtractionFailureNonFatal ==
  [][/\ (pc = "facts" /\ pc' # "facts" /\ Handled \in MalformedFacts)
          => (pc' = "store" /\ turn'.new_facts = << >> /\ StoreKept)
     /\ (pc = "profile" /\ pc' # "profile" /\ Handled \in MalformedProfile)
          => (pc' = "generate" /\ StoreKept)]_vars

C10_Witness ==
  /\ pc = "store"
  /\ turn.response = Answer(RespTwoLists)
  /\ turn.new_facts = << >>

TopKeys ==
  {K_user_profile, K_facts, K_relationships, K_important_dates, K_habits, K_created_at, K_updated_at}

\* the store has every field of the schema
CompleteSchema(mem) ==
  /\ IsDict(mem)
  /\ \A k \in TopKeys : Has(mem, k)
  /\ IsDict(Profile(mem))
  /\ \A f \in ProfileKeys : Has(Profile(mem), f)

\* C11: whatever MEMORY_FILE holds (nothing, text that is no JSON, JSON that
\* does not have the fields of the store), the store _load_memory returns
\* has the complete schema
C11_LoadYieldsSchema == call.op = "load" => CompleteSchema(memory)

\* MEMORY_FILE holds the store as it is in memory; before the first save
\* there is no file and the store is the empty one
Persisted ==
  IF disk = NoFile
  THEN memory = EmptyMemory(0)
  ELSE JsonLoads(disk).ok /\ JsonLoads(disk).v = memory

\* the operation that has just returned is one that mutates the store
Mutating(c) ==
  \/ c.op \in {"add_fact", "add_preference", "add_relationship", "add_important_date", "import_memory"}
       /\ c.out = "return"
  \/ c.op = "update_profile" /\ c.out = "True"

\* the operation that has just ended is one of the store
OfStore(c) == "before" \in DOMAIN c

\* updated_at is the instant of a save made as the last thing of the operation
Refreshed == call.saves > 0 /\ Get(memory, K_updated_at) = Now(clock - 1)

\* C12: every mutating operation of the store saves the store before it
\* returns: after every completed operation MEMORY_FILE holds the store as
\* it is in memory, and an operation that changed the store set updated_at
C12_Durability ==
  /\ Persisted
  /\ (OfStore(call) /\ (memory # call.before \/ Mutating(call))) => Refreshed

C12_Witness ==
  /\ call.op = "add_interest"
  /\ call.saves = 1
  /\ ~IsNone(Get(call.before, K_updated_at))
  /\ Get(memory, K_updated_at) # Get(call.before, K_updated_at)
  /\ disk = JsonDumps(memory)

\* the fact log of a store
FactLog(mem) == Get(mem, K_facts)[2]

IsPrefix(a, b) == Len(a) <= Len(b) /\ \A i \in DOMAIN a : a[i] = b[i]

FactText(entry) == Get(entry, K_fact)

StoreFound == IF call'.op = "import_into_fresh" THEN FreshStore(clock).mem ELSE memory

\* C14: created_at is set when the store is constructed and no operation of
\* the store, import_memory included, changes it afterwards
C14_CreatedAtFixed ==
  [][Get(memory', K_created_at) = Get(StoreFound, K_created_at)]_vars

\* a list of strings in which no string occurs twice
DistinctStrings(v) ==
  /\ IsList(v)
  /\ \A i \in DOMAIN v[2] : IsStr(v[2][i])
  /\ \A i, j \in DOMAIN v[2] : v[2][i] = v[2][j] => i = j

\* C15: in every state of the store the lists interests, goals and habits
\* are lists of strings without a duplicate entry
C15_ListsWithoutDuplicates ==
  /\ DistinctStrings(Get(Profile(memory), K_interests))
  /\ DistinctStrings(Get(Profile(memory), K_goals))
  /\ DistinctStrings(Get(memory, K_habits))

\* C16: in every state of a session the age of the profile is None or an
\* integer
C16_AgeNullOrInteger ==
  IsNone(Get(Profile(memory), K_age)) \/ IsInt(Get(Profile(memory), K_age))

\* the value json.load returned to the import that has just ended
Imported == JsonLoads(call.args[1]).v

\* C17: after import_memory every top-level key of the file has the file's
\* value in the store, every other key of the store has the value it had,
\* and the store was saved after the merge (the save sets updated_at and
\* writes MEMORY_FILE)
C17_ImportShallowMerge ==
  (call.op = "import_memory" /\ call.out = "return") =>
    /\ Keys(memory) = Keys(call.before) \cup Keys(Imported)
    /\ \A k \in Keys(memory) \ {K_updated_at} :
         Get(memory, k) = IF Has(Imported, k) THEN Get(Imported, k) ELSE Get(call.before, k)
    /\ Get(memory, K_updated_at) = Now(clock - 1)
    /\ call.saves = 1
    /\ disk = JsonDumps(memory)

C17_Witness ==
  /\ call.op = "import_memory"
  /\ call.args[1] = FileHabits
  /\ Get(memory, K_habits) = Get(Imported, K_habits)
  /\ Get(call.before, K_habits) # Get(memory, K_habits)
  /\ Truthy(Get(Profile(memory), K_interests))
  /\ Profile(memory) = Profile(call.before)

\* C18: when the generation request of a turn begins, every write of the
\* turn to the store has been made and saved (MEMORY_FILE holds the store,
\* which is complete), and the rest of the turn writes nothing to the store
\* or to MEMORY_FILE
C18_WritesBeforeGeneration ==
  [][pc = "generate" =>
       /\ Persisted
       /\ CompleteSchema(memory)
       /\ memory' = memory
       /\ disk' = disk]_vars

C18_Witness ==
  /\ pc = "exited"
  /\ call.out = "interrupt"
  /\ call.user_message = MsgVasya
  /\ Get(Profile(memory), K_location) = Str(Moskva)
  /\ Len(FactLog(memory)) = 1
  /\ disk = JsonDumps(memory)

\* the step ends a turn whose generation request was answered
TurnCompletes == pc = "generate" /\ pc' = "idle" /\ call'.generation = "ok"

\* the texts of the last n entries of the fact log
LastFactTexts(mem, n) ==
  [i \in 1..n |-> FactText(FactLog(mem)[Len(FactLog(mem)) - n + i])[2]]

\* C19: the log of the session gains one entry at the end for every turn
\* that completes, with the utterance, the response and the facts the turn
\* appended to the store, and is left as it is by every other step, a turn
\* that was aborted included
C19_OneEntryPerCompletedTurn ==
  [][IF TurnCompletes
     THEN /\ Len(log') = Len(log) + 1
          /\ IsPrefix(log, log')
          /\ log'[Len(log')].user = turn.user_message
          /\ log'[Len(log')].assistant = call'.response
          /\ log'[Len(log')].extracted_facts = turn.new_facts
          /\ LastFactTexts(memory, Len(turn.new_facts)) = turn.new_facts
     ELSE log' = log]_vars

\* the step is a call of clear_history between two turns
ClearStep == pc = "idle" /\ pc' = "idle" /\ call'.op = "clear_history"

\* C20: clear_history empties the history of the conversation and changes
\* nothing else: the store in memory, MEMORY_FILE (updated_at included) and
\* the log of the session are after the call what they were before
C20_ClearHistoryFrame ==
  [][ClearStep => /\ history' = << >>
                  /\ memory' = memory
                  /\ disk' = disk
                  /\ log' = log
                  /\ clock' = clock]_vars

C20_Witness ==
  /\ call.op = "clear_history"
  /\ pc = "idle"
  /\ history = << >>
  /\ Len(log) = 1
  /\ disk = JsonDumps(memory)
  /\ Truthy(Get(memory, K_updated_at))

\* the nickname the nickname patterns yield for an utterance, << >> for none
PatternNickname(u) == FirstNickname(Strip(Lower(u)), 1)

\* C21: in _extract_name_directly the nickname patterns are applied to the
\* utterance whether or not the short-utterance heuristic set the name: an
\* utterance with a nickname match leaves that nickname in the profile
C21_NicknameIndependent ==
  [][(FastPathStep /\ PatternNickname(turn'.user_message) # << >>)
        => NicknameOf(memory') = Str(PatternNickname(turn'.user_message))]_vars

\* the facts the model returned in the turn: none when it was not asked
Returned == IF turn.response.kind = "ok" THEN turn.new_facts ELSE << >>

\* a fact of the form "Пользователя зовут X"
IsNameFact(text) == Len(text) > Len(NamedPrefix) /\ SubSeq(text, 1, Len(NamedPrefix)) = NamedPrefix

\* the texts of the facts the step appended to the fact log
AppendedTexts ==
  {FactText(FactLog(memory')[i])[2] : i \in (Len(FactLog(memory)) + 1)..Len(FactLog(memory'))}

\* C22: in a turn a fact "Пользователя зовут X" that the model did not
\* return is appended to the fact log only if the fast path changed the
\* name of the profile in the turn and no fact the model returned mentions
\* the name
C22_NameFactOnlyOnNameChange ==
  [][(pc = "store" /\ pc' # "store") =>
        \A f \in AppendedTexts :
          (IsNameFact(f) /\ \A i \in DOMAIN Returned : Returned[i] # f)
             => (turn.name_changed /\ ~HasNameFact(Returned))]_vars

\* the list the adder of this step works on, as the step finds it
ListFound ==
  CASE call'.op = "add_interest" -> Get(Profile(memory), K_interests)
    [] call'.op = "add_goal" -> Get(Profile(memory), K_goals)
    [] call'.op = "add_habit" -> Get(memory, K_habits)

\* the step is an adder called with a value its list holds already
AdderOfKnown ==
  /\ call'.op \in {"add_interest", "add_goal", "add_habit"}
  /\ ~ContainsRaises(ListFound)
  /\ Contains(ListFound, call'.args[1])

\* C23: add_interest, add_goal and add_habit of a value that is in the list
\* already return without an error and without a save: the store in memory
\* (updated_at included) and MEMORY_FILE are what they were
C23_AdderOfKnownValue ==
  [][AdderOfKnown => /\ call'.out = "return"
                     /\ call'.saves = 0
                     /\ memory' = memory
                     /\ disk' = disk
                     /\ clock' = clock]_vars

C23_Witness ==
  /\ call.op = "add_habit"
  /\ call.args[1] = Rok
  /\ call.saves = 0
  /\ memory = call.before
  /\ Get(memory, K_habits) = List(<< Str(Rok) >>)
  /\ disk = JsonDumps(memory)

\* the group of the first pattern of the list that matches the text, << >>
\* when none matches
RECURSIVE FirstMatch(_, _, _)
FirstMatch(patterns, s, k) ==
  IF k > Len(patterns) THEN << >>
  ELSE IF Search(patterns[k], s) # << >> THEN Search(patterns[k], s)
  ELSE FirstMatch(patterns, s, k + 1)

\* shorter than 3 characters, or a stop word in any case
Rejected(m) == Len(m) < 3 \/ Lower(m) \in StopWords

\* what the field is after the pattern strategy: the winning match,
\* capitalized, or what it was when nothing matched or the match is rejected
AfterPatterns(patterns, u, was) ==
  IF FirstMatch(patterns, Strip(Lower(u)), 1) = << >> \/ Rejected(FirstMatch(patterns, Strip(Lower(u)), 1))
  THEN was
  ELSE Str(Capitalize(FirstMatch(patterns, Strip(Lower(u)), 1)))

\* the fast path of the step went on to the pattern strategy
PatternStep ==
  FastPathStep /\ ~(Unnamed(memory) /\ ShortNameUtterance(turn'.user_message))

\* C24: in the pattern strategy the first pattern of each list that matches
\* the utterance wins; its match sets the field unless it is shorter than 3
\* characters or a stop word, and then the field is not updated
C24_FirstPatternWins ==
  [][PatternStep =>
       /\ NameOf(memory') = AfterPatterns(NamePatterns, turn'.user_message, NameOf(memory))
       /\ NicknameOf(memory') = AfterPatterns(NicknamePatterns, turn'.user_message, NicknameOf(memory))]_vars

\* the turn appended a fact or its fast path wrote a field of the profile
\* (the merge runs only in a turn that appended a fact)
TurnWrote == turn.new_facts # << >> \/ turn.name_extracted

\* C25: the system prompt of the generation request is built from the store
\* as it is after the fact appends and the merge of the turn, and in a turn
\* that appended a fact or set a field of the profile its context is not
\* the fixed text "nothing known" and its last line does not speak of a
\* first conversation
C25_PromptFromStoreAfterMerge ==
  pc = "generate" =>
    /\ Text(turn.system_prompt.context) = GetMemoryContext(memory)
    /\ TurnWrote => /\ turn.system_prompt.context # EmptyMemoryText
                    /\ turn.system_prompt.has_memory

\* the places of the line ends of a text, and the k-th of them
LineEnds(text) == {i \in DOMAIN text : text[i] = "NL"}

LineEnd(text, k) ==
  IF k > Cardinality(LineEnds(text)) THEN Len(text) + 1
  ELSE CHOOSE i \in LineEnds(text) : Cardinality({j \in LineEnds(text) : j <= i}) = k

\* the facts the context lists: its lines after the heading, without "- "
ListedFacts(context) ==
  [k \in 1..Cardinality(LineEnds(context)) |->
     SubSeq(context, LineEnd(context, k) + 3, LineEnd(context, k + 1) - 1)]

Min(a, b) == IF a <= b THEN a ELSE b

\* the texts of the last min(10, n) entries of a fact log of length n, the
\* oldest of them first
LastTenTexts(facts) ==
  [i \in 1..Min(10, Len(facts)) |-> FactText(facts[Len(facts) - Min(10, Len(facts)) + i])[2]]

\* C26: for a store that holds only facts, the context lists the last
\* min(10, n) entries of the fact log of length n in the order they were
\* appended
C26_LastTenFacts ==
  FactLog(memory) # << >> =>
    /\ GetMemoryContext(memory)[1] = "text"
    /\ ListedFacts(GetMemoryContext(memory)[2]) = LastTenTexts(FactLog(memory))

C26_Witness ==
  /\ Len(FactLog(memory)) = 12
  /\ FactText(FactLog(memory)[2]) # FactText(FactLog(memory)[3])
  /\ Len(ListedFacts(GetMemoryContext(memory)[2])) = 10
  /\ Str(ListedFacts(GetMemoryContext(memory)[2])[1]) = FactText(FactLog(memory)[3])

(***************************************************************************)
(* C27: between turns the history alternates user, assistant               *)
(***************************************************************************)
\* the history is a sequence of pairs: a user entry, then an assistant entry
Alternates(h) ==
  /\ Len(h) % 2 = 0
  /\ \A i \in 1..Len(h) : h[i].role = IF i % 2 = 1 THEN "user" ELSE "assistant"

\* C27: whenever no turn is in progress, the history has even length and
\* its entries are user, assistant, user, assistant, ... in this order
C27_HistoryAlternates == pc = "idle" => Alternates(history)

\* what the code keeps: between turns the history is pairs of user and
\* assistant entries as long as no turn was left by an exception after
\* line 645; a turn left there adds a user entry alone
UserRuns(h) == \A i \in 1..Len(h) : h[i].role = "assistant" => i > 1 /\ h[i-1].role = "user"

C27_AssistantFollowsUser == UserRuns(history)

C27_LoneUserEntry ==
  /\ pc = "idle"
  /\ call.op = "process_message" /\ call.out = "raise"
  /\ history # << >> /\ history[Len(history)].role = "user"

====
